---- MODULE Spec2Model ----
(***************************************************************************)
(* AquaLang compiler front-end: lexer (Lexer/lexer.py), parser             *)
(* (Parser/parser.py), semantic analyzer (Semantic/semantic.py,            *)
(* Semantic/symbol_table.py), code generator (CodeGen/codegeneration.py)   *)
(* and the two drivers (main.py, gui.py).                                  *)
(*                                                                         *)
(* Source text is a sequence of one-character strings.  A token value and  *)
(* an AST leaf are sequences of characters too; Python's None leaf is the  *)
(* empty sequence.                                                         *)
(***************************************************************************)
EXTENDS Integers, Sequences, FiniteSets, TLC

VARIABLES
    mode,        \* which component this behaviour exercises
    lexdata,     \* lexer.lexdata : the text given to lexer.input
    lexpos,      \* lexer.lexpos  : 0-based scan position
    lineno,      \* lexer.lineno
    toks,        \* tokens returned so far, in order
    pc,          \* position of the driver / component
    driver,      \* "cli" (main.py) or "gui" (gui.py)
    ran,         \* stages that have run, in order
    lexical_errors, \* main.py lexical_errors / gui.py lex_errors
    ast,         \* the parser's return value (NoneNode for None)
    syntax_errors,  \* number of p_error reports
    ptoks,       \* token sequence given to the parser
    scopes,      \* symbol_table.scopes
    error_list,  \* semantic.error_list
    current_func_ret_type, \* semantic.current_func_ret_type
    agenda,      \* pending work of iterate(): the call stack, flattened
    is_valid,    \* result of semantic_analysis
    code_section,   \* CodeGenerator.code_section
    data_section    \* CodeGenerator.data_section

vars == <<mode, lexdata, lexpos, lineno, toks, pc, driver, ran, lexical_errors,
          ast, syntax_errors, ptoks, scopes, error_list, current_func_ret_type,
          agenda, is_valid, code_section, data_section>>

(***************************************************************************)
(* Characters                                                              *)
(***************************************************************************)
\* x, evaluated once, handed to F
Bind(x, F(_)) == CHOOSE v \in {F(y) : y \in {x}} : TRUE

Digit == {"0", "1", "2", "3", "4", "5", "6", "7", "8", "9"}

HexDigit == Digit \cup {"a", "b", "c", "d", "e", "f", "A", "B", "C", "D", "E", "F"}

Letter == {"a", "b", "c", "d", "e", "f", "g", "h", "i", "j", "k", "l", "m",
           "n", "o", "p", "q", "r", "s", "t", "u", "v", "w", "x", "y", "z",
           "A", "B", "C", "D", "E", "F", "G", "H", "I", "J", "K", "L", "M",
           "N", "O", "P", "Q", "R", "S", "T", "U", "V", "W", "X", "Y", "Z"}

IdStart == Letter \cup {"_"}

IdChar == Letter \cup Digit \cup {"_"}

\* the character at 1-based index i, "" past either end
At(d, i) == IF i >= 1 /\ i <= Len(d) THEN d[i] ELSE ""

\* number of consecutive characters from index i that lie in S
RECURSIVE RunLen(_, _, _)
RunLen(d, i, S) == IF At(d, i) \in S THEN 1 + RunLen(d, i + 1, S) ELSE 0

\* number of consecutive characters from index i other than newline: '.*'
RECURSIVE DotRun(_, _)
DotRun(d, i) == IF At(d, i) \notin {"", "\n"} THEN 1 + DotRun(d, i + 1) ELSE 0

\* str.find('\n', i0) with 0-based i0: 0-based index of the first newline, -1 if none
RECURSIVE Find(_, _)
Find(d, i0) ==
    IF i0 >= Len(d) THEN -1
    ELSE IF d[i0 + 1] = "\n" THEN i0
    ELSE Find(d, i0 + 1)

\* str.rfind('\n', 0, e) with 0-based exclusive end e: last newline before e, -1 if none
RECURSIVE RFind(_, _)
RFind(d, e) ==
    IF e <= 0 THEN -1
    ELSE IF At(d, e) = "\n" THEN e - 1
    ELSE RFind(d, e - 1)

\* s.count('\n')
RECURSIVE CountNL(_)
CountNL(s) == IF s = <<>> THEN 0
              ELSE (IF Head(s) = "\n" THEN 1 ELSE 0) + CountNL(Tail(s))

\* d[a:b] with 0-based a, exclusive b
Slice(d, a, b) == SubSeq(d, a + 1, b)

(***************************************************************************)
(* Lexer rules (Lexer/lexer.py).  Each t_X(d, p) is the length of the      *)
(* match of rule X's regular expression at 0-based position p, 0 when it   *)
(* does not match.  PLY compiles the rules with re.VERBOSE, so the blanks  *)
(* in the patterns are not part of them.                                   *)
(***************************************************************************)

\* r'/\*(.|\n)*?\*/' : up to the first "*/" at or after p+2
RECURSIVE CloseComment(_, _)
CloseComment(d, i) ==
    IF i + 1 > Len(d) THEN 0
    ELSE IF d[i] = "*" /\ d[i + 1] = "/" THEN i + 1
    ELSE CloseComment(d, i + 1)

t_ignore_COMMENT_MULTI(d, p) ==
    IF At(d, p + 1) = "/" /\ At(d, p + 2) = "*" /\ CloseComment(d, p + 3) > 0
    THEN CloseComment(d, p + 3) - p
    ELSE 0

\* r'//.*'
t_ignore_COMMENT_SINGLE(d, p) ==
    IF At(d, p + 1) = "/" /\ At(d, p + 2) = "/" THEN 2 + DotRun(d, p + 3) ELSE 0

\* [eE][+-]?[0-9]+ at 1-based index i
Exponent(d, i) ==
    IF At(d, i) \in {"e", "E"}
    THEN LET j == IF At(d, i + 1) \in {"+", "-"} THEN i + 2 ELSE i + 1
             n == RunLen(d, j, Digit)
         IN  IF n > 0 THEN (j - i) + n ELSE 0
    ELSE 0

\* r'[0-9]+\.[0-9]+([eE][+-]?[0-9]+)? | [0-9]+[eE][+-]?[0-9]+'
t_FLOAT_LITERAL(d, p) ==
    LET n1 == RunLen(d, p + 1, Digit)
        n2 == RunLen(d, p + n1 + 2, Digit)
    IN  IF n1 > 0 /\ At(d, p + n1 + 1) = "." /\ n2 > 0
        THEN n1 + 1 + n2 + Exponent(d, p + n1 + 1 + n2 + 1)
        ELSE IF n1 > 0 /\ Exponent(d, p + n1 + 1) > 0
        THEN n1 + Exponent(d, p + n1 + 1)
        ELSE 0

\* r'0x[0-9a-fA-F]+ | [0-9]+'
t_INT_LITERAL(d, p) ==
    IF At(d, p + 1) = "0" /\ At(d, p + 2) = "x" /\ RunLen(d, p + 3, HexDigit) > 0
    THEN 2 + RunLen(d, p + 3, HexDigit)
    ELSE RunLen(d, p + 1, Digit)

\* r"\'([^'\\] | \\.)\'"
t_CHAR_LITERAL(d, p) ==
    IF At(d, p + 1) # "'" THEN 0
    ELSE IF At(d, p + 2) \notin {"", "'", "\\"} /\ At(d, p + 3) = "'" THEN 3
    ELSE IF At(d, p + 2) = "\\" /\ At(d, p + 3) \notin {"", "\n"} /\ At(d, p + 4) = "'"
    THEN 4
    ELSE 0

\* the closing quote of r'\"([^"\\] | \\.)*\"', scanning from index i; 0 if none
RECURSIVE CloseString(_, _)
CloseString(d, i) ==
    IF i > Len(d) THEN 0
    ELSE IF d[i] = "\"" THEN i
    ELSE IF d[i] = "\\"
         THEN IF At(d, i + 1) \notin {"", "\n"} THEN CloseString(d, i + 2) ELSE 0
    ELSE CloseString(d, i + 1)

t_STRING_LITERAL(d, p) ==
    IF At(d, p + 1) = "\"" /\ CloseString(d, p + 2) > 0
    THEN CloseString(d, p + 2) - p
    ELSE 0

\* r'[a-zA-Z_][a-zA-Z0-9_]*'
t_ID(d, p) ==
    IF At(d, p + 1) \in IdStart THEN 1 + RunLen(d, p + 2, IdChar) ELSE 0

\* r'\n+'
t_newline(d, p) == RunLen(d, p + 1, {"\n"})

\* reserved.get(value, 'ID')
reserved(v) ==
    CASE v = <<"f", "u", "n", "c">> -> "FUNC"
      [] v = <<"i", "f">> -> "IF"
      [] v = <<"e", "l", "i", "f">> -> "ELIF"
      [] v = <<"e", "l", "s", "e">> -> "ELSE"
      [] v = <<"w", "h", "i", "l", "e">> -> "WHILE"
      [] v = <<"f", "o", "r">> -> "FOR"
      [] v = <<"b", "r", "e", "a", "k">> -> "BREAK"
      [] v = <<"c", "o", "n", "t", "i", "n", "u", "e">> -> "CONTINUE"
      [] v = <<"i", "n", "t">> -> "INT"
      [] v = <<"f", "l", "o", "a", "t">> -> "FLOAT"
      [] v = <<"b", "o", "o", "l">> -> "BOOL"
      [] v = <<"c", "h", "a", "r">> -> "CHAR"
      [] v = <<"s", "t", "r", "i", "n", "g">> -> "STRING"
      [] v = <<"r", "e", "t", "u", "r", "n">> -> "RETURN"
      [] v = <<"p", "r", "i", "n", "t">> -> "PRINT"
      [] v = <<"i", "n", "p", "u", "t">> -> "INPUT"
      [] v = <<"f", "a", "l", "s", "e">> -> "FALSE"
      [] v = <<"t", "r", "u", "e">> -> "TRUE"
      [] OTHER -> "ID"

\* the operator and separator rules given as strings; PLY tries the longer
\* patterns first, so the two-character operators win over their prefixes
SimpleToken(d, p) ==
    LET a == At(d, p + 1)
        b == At(d, p + 2)
    IN  CASE a = "<" /\ b = "=" -> [type |-> "LE", len |-> 2]
          [] a = ">" /\ b = "=" -> [type |-> "GE", len |-> 2]
          [] a = "=" /\ b = "=" -> [type |-> "EQ", len |-> 2]
          [] a = "!" /\ b = "=" -> [type |-> "NE", len |-> 2]
          [] a = "|" /\ b = "|" -> [type |-> "OR", len |-> 2]
          [] a = "&" /\ b = "&" -> [type |-> "AND", len |-> 2]
          [] a = "+" -> [type |-> "PLUS", len |-> 1]
          [] a = "-" -> [type |-> "MINUS", len |-> 1]
          [] a = "*" -> [type |-> "TIMES", len |-> 1]
          [] a = "/" -> [type |-> "DIVIDE", len |-> 1]
          [] a = "%" -> [type |-> "MOD", len |-> 1]
          [] a = "<" -> [type |-> "LT", len |-> 1]
          [] a = ">" -> [type |-> "GT", len |-> 1]
          [] a = "!" -> [type |-> "NOT", len |-> 1]
          [] a = "(" -> [type |-> "LPAREN", len |-> 1]
          [] a = ")" -> [type |-> "RPAREN", len |-> 1]
          [] a = "[" -> [type |-> "LBRACKET", len |-> 1]
          [] a = "]" -> [type |-> "RBRACKET", len |-> 1]
          [] a = "{" -> [type |-> "LBRACE", len |-> 1]
          [] a = "}" -> [type |-> "RBRACE", len |-> 1]
          [] a = "," -> [type |-> "COMMA", len |-> 1]
          [] a = ";" -> [type |-> "SEMI", len |-> 1]
          [] a = "=" -> [type |-> "ASSIGN", len |-> 1]
          [] OTHER -> [type |-> "", len |-> 0]

\* t_ignore = ' \t'
t_ignore == {" ", "\t"}

Token(type, value, ln, p) == [type |-> type, value |-> value, lineno |-> ln, lexpos |-> p]

NoToken == Token("", <<>>, 0, 0)

\* what one scan step leaves: the new position and line counter, and the token
\* returned, NoToken when the step returns none
Scan(p, ln, tok) == [lexpos |-> p, lineno |-> ln, tok |-> tok]

\* a t_error that would skip nothing
skip_len_none(d, p) == 0

\* a t_error that would skip the offending character only
skip_len_char(d, p) == 1

\* skip_len of t_error: from the failure point to the end of its line
skip_len(d, p) ==
    LET line_end_pos == IF Find(d, p) = -1 THEN Len(d) ELSE Find(d, p)
    IN  line_end_pos - p

\* a t_error that would capture the text from the failure point on
t_error_from_failure(d, p, ln) ==
    LET line_end_pos == IF Find(d, p) = -1 THEN Len(d) ELSE Find(d, p)
    IN  Scan(p + skip_len(d, p), ln, Token("INVALID", Slice(d, p, line_end_pos), ln, p))

\* t_error: an INVALID token carrying the whole line, the rest of the line skipped
t_error(d, p, ln) ==
    LET line_start_pos == RFind(d, p) + 1
        line_end_pos == IF Find(d, p) = -1 THEN Len(d) ELSE Find(d, p)
        line_content == Slice(d, line_start_pos, line_end_pos)
    IN  Scan(p + skip_len(d, p), ln, Token("INVALID", line_content, ln, p))

\* The rule that decides one iteration of the scanning loop of lexer.token() at
\* position p < Len(d): an ignored character, else the first rule that matches
\* in the order of the master regular expression (the function rules in the
\* order of their definition, then the string rules), else t_error.
Rule(d, p) ==
    IF At(d, p + 1) \in t_ignore THEN "t_ignore"
    ELSE IF t_ignore_COMMENT_MULTI(d, p) > 0 THEN "t_ignore_COMMENT_MULTI"
    ELSE IF t_ignore_COMMENT_SINGLE(d, p) > 0 THEN "t_ignore_COMMENT_SINGLE"
    ELSE IF t_FLOAT_LITERAL(d, p) > 0 THEN "t_FLOAT_LITERAL"
    ELSE IF t_INT_LITERAL(d, p) > 0 THEN "t_INT_LITERAL"
    ELSE IF t_CHAR_LITERAL(d, p) > 0 THEN "t_CHAR_LITERAL"
    ELSE IF t_STRING_LITERAL(d, p) > 0 THEN "t_STRING_LITERAL"
    ELSE IF t_ID(d, p) > 0 THEN "t_ID"
    ELSE IF t_newline(d, p) > 0 THEN "t_newline"
    ELSE IF SimpleToken(d, p).len > 0 THEN "simple"
    ELSE "t_error"

\* One iteration of the scanning loop: the rule's action and the new position.
\* A token carries the line counter as it was when the rule matched.
LexStep(d, p, ln) ==
    LET v(n) == Slice(d, p, p + n)
        r == Rule(d, p)
    IN  CASE r = "t_ignore" -> Scan(p + 1, ln, NoToken)
          [] r = "t_ignore_COMMENT_MULTI" ->
                LET n == t_ignore_COMMENT_MULTI(d, p)
                IN  Scan(p + n, ln + CountNL(v(n)), NoToken)
          [] r = "t_ignore_COMMENT_SINGLE" ->
                Scan(p + t_ignore_COMMENT_SINGLE(d, p), ln, NoToken)
          [] r = "t_FLOAT_LITERAL" ->
                LET n == t_FLOAT_LITERAL(d, p)
                IN  Scan(p + n, ln, Token("FLOAT_LITERAL", v(n), ln, p))
          [] r = "t_INT_LITERAL" ->
                LET n == t_INT_LITERAL(d, p)
                IN  Scan(p + n, ln, Token("INT_LITERAL", v(n), ln, p))
          [] r = "t_CHAR_LITERAL" ->
                LET n == t_CHAR_LITERAL(d, p)
                IN  Scan(p + n, ln, Token("CHAR_LITERAL", Slice(d, p + 1, p + n - 1), ln, p))
          [] r = "t_STRING_LITERAL" ->
                LET n == t_STRING_LITERAL(d, p)
                IN  Scan(p + n, ln, Token("STRING_LITERAL", Slice(d, p + 1, p + n - 1), ln, p))
          [] r = "t_ID" ->
                LET n == t_ID(d, p)
                IN  Scan(p + n, ln, Token(reserved(v(n)), v(n), ln, p))
          [] r = "t_newline" ->
                Scan(p + t_newline(d, p), ln + t_newline(d, p), NoToken)
          [] r = "simple" ->
                LET s == SimpleToken(d, p)
                IN  Scan(p + s.len, ln, Token(s.type, v(s.len), ln, p))
          [] OTHER -> t_error(d, p, ln)

\* lexer.token(): scan until a rule returns a token or the input ends
RECURSIVE token(_, _, _)
token(d, p, ln) ==
    IF p >= Len(d) THEN Scan(p, ln, NoToken)
    ELSE Bind(LexStep(d, p, ln), LAMBDA s :
             IF s.tok # NoToken THEN s ELSE token(d, s.lexpos, s.lineno))

\* every token of d from position p on, as the loop "while True: tok = lexer.token()"
\* collects them
RECURSIVE Tokenize(_, _, _)
Tokenize(d, p, ln) ==
    Bind(token(d, p, ln), LAMBDA s :
        IF s.tok = NoToken THEN <<>> ELSE <<s.tok>> \o Tokenize(d, s.lexpos, s.lineno))

(***************************************************************************)
(* AST nodes (Parser/ast.py) and the grammar actions (Parser/parser.py).   *)
(***************************************************************************)
\* Node(type, children=None, leaf=None)
Node(type, children, leaf) == [type |-> type, children |-> children, leaf |-> leaf]

\* Python's None where a node is expected
NoneNode == Node("None", <<>>, <<>>)

p_program(declaration_list) == Node("program", declaration_list, <<>>)

p_type(t) == Node("type", <<>>, t)

p_var_decl_scalar(type, id) == Node("var_decl", <<type>>, id)

p_var_decl_array(type, id, int_literal) ==
    Node("var_decl_array", <<type, Node("size", <<>>, int_literal)>>, id)

p_func_decl(id, params, block) == Node("func_decl", <<params, block>>, id)

p_param_list_opt(param_list) == Node("params", param_list, <<>>)

p_param(type, id) == Node("param", <<type>>, id)

p_block(statement_list) == Node("block", statement_list, <<>>)

p_assignment(location, expr) == Node("assign", <<location, expr>>, <<>>)

p_location_id(id) == Node("id", <<>>, id)

p_location_array(id, expr) == Node("array_access", <<expr>>, id)

\* children = [cond, block], then the elif part and the else part when present
p_if_stmt(expr, block, elif_part, else_part) ==
    Node("if",
         <<expr, block>>
           \o (IF elif_part # NoneNode THEN <<elif_part>> ELSE <<>>)
           \o (IF else_part # NoneNode THEN <<else_part>> ELSE <<>>),
         <<>>)

p_elif_part(expr, block, elif_part) ==
    Node("elif",
         <<expr, block>> \o (IF elif_part # NoneNode THEN <<elif_part>> ELSE <<>>),
         <<>>)

p_else_part_opt(block) == Node("else", <<block>>, <<>>)

p_while_stmt(expr, block) == Node("while", <<expr, block>>, <<>>)

p_for_stmt(init, expr, update, block) == Node("for", <<init, expr, update, block>>, <<>>)

p_io_stmt_print(expr) == Node("print", <<expr>>, <<>>)

p_io_stmt_input(id) == Node("input", <<>>, id)

p_return_stmt(expr_opt) ==
    IF expr_opt # NoneNode THEN Node("return", <<expr_opt>>, <<>>)
    ELSE Node("return", <<>>, <<>>)

p_break_stmt == Node("break", <<>>, <<>>)

p_continue_stmt == Node("continue", <<>>, <<>>)

p_expr_binop(left, op, right) == Node("bin_op", <<left, right>>, op)

p_expr_unary(op, expr) == Node("unary_op", <<expr>>, op)

p_func_call(id, args) == Node("call", <<args>>, id)

p_arg_list_opt(arg_list) == Node("args", arg_list, <<>>)

p_literal(v) == Node("literal", <<>>, v)

(***************************************************************************)
(* The precedence table and yacc's resolution of the shift/reduce          *)
(* conflicts of "expr : expr OP expr" with it.                             *)
(***************************************************************************)
BinaryOps == {"OR", "AND", "EQ", "NE", "LT", "GT", "LE", "GE",
              "PLUS", "MINUS", "TIMES", "DIVIDE", "MOD"}

TypeTokens == {"INT", "FLOAT", "BOOL", "CHAR", "STRING"}

LiteralTokens == {"INT_LITERAL", "FLOAT_LITERAL", "CHAR_LITERAL", "STRING_LITERAL",
                  "TRUE", "FALSE"}

\* precedence: the level of a terminal, lowest first (1-based row of the table)
precedence(t) ==
    CASE t = "OR" -> 1
      [] t = "AND" -> 2
      [] t \in {"EQ", "NE"} -> 3
      [] t \in {"LT", "GT", "LE", "GE"} -> 4
      [] t \in {"PLUS", "MINUS"} -> 5
      [] t \in {"TIMES", "DIVIDE", "MOD"} -> 6
      [] t \in {"NOT", "UMINUS"} -> 7
      [] OTHER -> 0

\* the associativity of a level of the table
associativity(level) ==
    CASE level \in {1, 2, 3, 5, 6} -> "left"
      [] level = 4 -> "nonassoc"
      [] OTHER -> "right"

\* a resolution that would always reduce first
Resolve_reduce(rlevel, a) == "reduce"

\* yacc's choice in a state holding a complete production of level rlevel with
\* the binary operator a as lookahead
Resolve(rlevel, a) ==
    LET slevel == precedence(a)
    IN  IF slevel < rlevel \/ (slevel = rlevel /\ associativity(rlevel) = "left")
        THEN "reduce"
        ELSE IF slevel = rlevel /\ associativity(rlevel) = "nonassoc" THEN "error"
        ELSE "shift"

(***************************************************************************)
(* The parser.  A parse of a nonterminal from token index i (1-based) is   *)
(* Ok(node, next index) or Fail(index of the token yacc reports).          *)
(***************************************************************************)
Ok(node, pos) == [ok |-> TRUE, node |-> node, list |-> <<>>, pos |-> pos]

OkList(list, pos) == [ok |-> TRUE, node |-> NoneNode, list |-> list, pos |-> pos]

Fail(pos) == [ok |-> FALSE, node |-> NoneNode, list |-> <<>>, pos |-> pos]

\* the type of token i, "$end" past the last token
TokType(ts, i) == IF i <= Len(ts) THEN ts[i].type ELSE "$end"

\* entries of the parsing stack inside an expression
ExprEntry(node) == [k |-> "expr", node |-> node, op |-> "", leaf |-> <<>>]

OpEntry(kind, op, leaf) == [k |-> kind, node |-> NoneNode, op |-> op, leaf |-> leaf]

\* the reduction of the production on top of the stack:
\* expr OP expr (p_expr_binop) or OP expr (p_expr_unary)
Reduce(stack) ==
    LET n == Len(stack)
    IN  IF stack[n - 1].k = "binop"
        THEN Append(SubSeq(stack, 1, n - 3),
                    ExprEntry(p_expr_binop(stack[n - 2].node, stack[n - 1].leaf,
                                           stack[n].node)))
        ELSE Append(SubSeq(stack, 1, n - 2),
                    ExprEntry(p_expr_unary(stack[n - 1].leaf, stack[n].node)))

RECURSIVE ParseExprFrom(_, _, _)
RECURSIVE ParseArgList(_, _, _)
RECURSIVE ParseStatement(_, _)
RECURSIVE ParseStatementList(_, _, _)
RECURSIVE ParseElifPart(_, _)

ParseExpr(ts, i) == ParseExprFrom(ts, <<>>, i)

\* arg_list : arg_list COMMA expr | expr, from the first expr
ParseArgList(ts, acc, i) ==
    Bind(ParseExpr(ts, i), LAMBDA e :
        IF ~e.ok THEN e
        ELSE IF TokType(ts, e.pos) = "COMMA"
        THEN ParseArgList(ts, Append(acc, e.node), e.pos + 1)
        ELSE OkList(Append(acc, e.node), e.pos))

\* func_call : ID LPAREN arg_list_opt RPAREN, with token i the ID
ParseCall(ts, i) ==
    IF TokType(ts, i + 2) = "RPAREN"
    THEN Ok(p_func_call(ts[i].value, p_arg_list_opt(<<>>)), i + 3)
    ELSE Bind(ParseArgList(ts, <<>>, i + 2), LAMBDA a :
             IF ~a.ok THEN a
             ELSE IF TokType(ts, a.pos) # "RPAREN" THEN Fail(a.pos)
             ELSE Ok(p_func_call(ts[i].value, p_arg_list_opt(a.list)), a.pos + 1))

\* location : ID | ID LBRACKET expr RBRACKET, with token i the ID
ParseLocation(ts, i) ==
    IF TokType(ts, i + 1) # "LBRACKET" THEN Ok(p_location_id(ts[i].value), i + 1)
    ELSE Bind(ParseExpr(ts, i + 2), LAMBDA e :
             IF ~e.ok THEN e
             ELSE IF TokType(ts, e.pos) # "RBRACKET" THEN Fail(e.pos)
             ELSE Ok(p_location_array(ts[i].value, e.node), e.pos + 1))

\* an operand: literal, location, func_call or LPAREN expr RPAREN
ParseOperand(ts, i) ==
    IF TokType(ts, i) \in LiteralTokens THEN Ok(p_literal(ts[i].value), i + 1)
    ELSE IF TokType(ts, i) = "ID"
    THEN IF TokType(ts, i + 1) = "LPAREN" THEN ParseCall(ts, i)
         ELSE ParseLocation(ts, i)
    ELSE IF TokType(ts, i) # "LPAREN" THEN Fail(i)
    ELSE Bind(ParseExpr(ts, i + 1), LAMBDA e :
             IF ~e.ok THEN e
             ELSE IF TokType(ts, e.pos) # "RPAREN" THEN Fail(e.pos)
             ELSE Ok(e.node, e.pos + 1))

\* expr, by shifting and reducing on the stack as the generated tables do
ParseExprFrom(ts, stack0, i) ==
    Bind(stack0, LAMBDA stack :
    LET n == Len(stack)
        t == TokType(ts, i)
    IN  IF n = 0 \/ stack[n].k # "expr"
        THEN \* an operand or a prefix operator is due
             IF t = "MINUS"
             THEN ParseExprFrom(ts, Append(stack, OpEntry("prefix", "UMINUS", ts[i].value)), i + 1)
             ELSE IF t = "NOT"
             THEN ParseExprFrom(ts, Append(stack, OpEntry("prefix", "NOT", ts[i].value)), i + 1)
             ELSE Bind(ParseOperand(ts, i), LAMBDA o :
                      IF ~o.ok THEN o
                      ELSE ParseExprFrom(ts, Append(stack, ExprEntry(o.node)), o.pos))
        ELSE IF n = 1
        THEN \* a lone expr: shift a binary operator, else the expression ends
             IF t \in BinaryOps
             THEN ParseExprFrom(ts, Append(stack, OpEntry("binop", t, ts[i].value)), i + 1)
             ELSE Ok(stack[1].node, i)
        ELSE \* a complete production is on top of the stack
             IF t \in BinaryOps
             THEN LET choice == Resolve(precedence(stack[n - 1].op), t)
                  IN  IF choice = "reduce" THEN ParseExprFrom(ts, Reduce(stack), i)
                      ELSE IF choice = "error" THEN Fail(i)
                      ELSE ParseExprFrom(ts, Append(stack, OpEntry("binop", t, ts[i].value)), i + 1)
             ELSE ParseExprFrom(ts, Reduce(stack), i))

\* assignment : location ASSIGN expr, with token i the ID
ParseAssignment(ts, i) ==
    IF TokType(ts, i) # "ID" THEN Fail(i)
    ELSE Bind(ParseLocation(ts, i), LAMBDA l :
             IF ~l.ok THEN l
             ELSE IF TokType(ts, l.pos) # "ASSIGN" THEN Fail(l.pos)
             ELSE Bind(ParseExpr(ts, l.pos + 1), LAMBDA e :
                      IF ~e.ok THEN e
                      ELSE Ok(p_assignment(l.node, e.node), e.pos)))

\* block : LBRACE statement_list RBRACE
ParseBlock(ts, i) ==
    IF TokType(ts, i) # "LBRACE" THEN Fail(i)
    ELSE Bind(ParseStatementList(ts, <<>>, i + 1), LAMBDA l :
             IF ~l.ok THEN l ELSE Ok(p_block(l.list), l.pos + 1))

\* LPAREN expr RPAREN block, the tail of if, elif and while
ParseCondBlock(ts, i) ==
    IF TokType(ts, i) # "LPAREN" THEN Fail(i)
    ELSE Bind(ParseExpr(ts, i + 1), LAMBDA e :
             IF ~e.ok THEN e
             ELSE IF TokType(ts, e.pos) # "RPAREN" THEN Fail(e.pos)
             ELSE Bind(ParseBlock(ts, e.pos + 1), LAMBDA b :
                      IF ~b.ok THEN b
                      ELSE [ok |-> TRUE, node |-> b.node, list |-> <<e.node>>, pos |-> b.pos]))

\* elif_part : ELIF LPAREN expr RPAREN block elif_part | empty
ParseElifPart(ts, i) ==
    IF TokType(ts, i) # "ELIF" THEN Ok(NoneNode, i)
    ELSE Bind(ParseCondBlock(ts, i + 1), LAMBDA c :
             IF ~c.ok THEN c
             ELSE Bind(ParseElifPart(ts, c.pos), LAMBDA r :
                      IF ~r.ok THEN r
                      ELSE Ok(p_elif_part(c.list[1], c.node, r.node), r.pos)))

\* else_part_opt : ELSE block | empty
ParseElsePartOpt(ts, i) ==
    IF TokType(ts, i) # "ELSE" THEN Ok(NoneNode, i)
    ELSE Bind(ParseBlock(ts, i + 1), LAMBDA b :
             IF ~b.ok THEN b ELSE Ok(p_else_part_opt(b.node), b.pos))

\* if_stmt : IF LPAREN expr RPAREN block elif_part else_part_opt
ParseIf(ts, i) ==
    Bind(ParseCondBlock(ts, i + 1), LAMBDA c :
        IF ~c.ok THEN c
        ELSE Bind(ParseElifPart(ts, c.pos), LAMBDA ei :
                 IF ~ei.ok THEN ei
                 ELSE Bind(ParseElsePartOpt(ts, ei.pos), LAMBDA el :
                          IF ~el.ok THEN el
                          ELSE Ok(p_if_stmt(c.list[1], c.node, ei.node, el.node), el.pos))))

\* while_stmt : WHILE LPAREN expr RPAREN block
ParseWhile(ts, i) ==
    Bind(ParseCondBlock(ts, i + 1), LAMBDA c :
        IF ~c.ok THEN c ELSE Ok(p_while_stmt(c.list[1], c.node), c.pos))

\* for_stmt : FOR LPAREN assignment SEMI expr SEMI assignment RPAREN block
ParseFor(ts, i) ==
    IF TokType(ts, i + 1) # "LPAREN" THEN Fail(i + 1)
    ELSE Bind(ParseAssignment(ts, i + 2), LAMBDA a1 :
             IF ~a1.ok THEN a1
             ELSE IF TokType(ts, a1.pos) # "SEMI" THEN Fail(a1.pos)
             ELSE Bind(ParseExpr(ts, a1.pos + 1), LAMBDA e :
                      IF ~e.ok THEN e
                      ELSE IF TokType(ts, e.pos) # "SEMI" THEN Fail(e.pos)
                      ELSE Bind(ParseAssignment(ts, e.pos + 1), LAMBDA a2 :
                               IF ~a2.ok THEN a2
                               ELSE IF TokType(ts, a2.pos) # "RPAREN" THEN Fail(a2.pos)
                               ELSE Bind(ParseBlock(ts, a2.pos + 1), LAMBDA b :
                                        IF ~b.ok THEN b
                                        ELSE Ok(p_for_stmt(a1.node, e.node, a2.node, b.node),
                                                b.pos)))))

\* io_stmt : PRINT LPAREN expr RPAREN | INPUT LPAREN ID RPAREN
ParseIo(ts, i) ==
    IF TokType(ts, i + 1) # "LPAREN" THEN Fail(i + 1)
    ELSE IF TokType(ts, i) = "INPUT"
    THEN IF TokType(ts, i + 2) # "ID" THEN Fail(i + 2)
         ELSE IF TokType(ts, i + 3) # "RPAREN" THEN Fail(i + 3)
         ELSE Ok(p_io_stmt_input(ts[i + 2].value), i + 4)
    ELSE Bind(ParseExpr(ts, i + 2), LAMBDA e :
             IF ~e.ok THEN e
             ELSE IF TokType(ts, e.pos) # "RPAREN" THEN Fail(e.pos)
             ELSE Ok(p_io_stmt_print(e.node), e.pos + 1))

\* return_stmt : RETURN expr_opt, where expr_opt is empty before SEMI
ParseReturn(ts, i) ==
    IF TokType(ts, i + 1) = "SEMI" THEN Ok(p_return_stmt(NoneNode), i + 1)
    ELSE Bind(ParseExpr(ts, i + 1), LAMBDA e :
             IF ~e.ok THEN e ELSE Ok(p_return_stmt(e.node), e.pos))

\* the statements that end with SEMI
ParseSimple(ts, i) ==
    LET t == TokType(ts, i)
    IN  CASE t = "ID" -> ParseAssignment(ts, i)
          [] t \in {"PRINT", "INPUT"} -> ParseIo(ts, i)
          [] t = "RETURN" -> ParseReturn(ts, i)
          [] t = "BREAK" -> Ok(p_break_stmt, i + 1)
          [] OTHER -> Ok(p_continue_stmt, i + 1)

\* statement : assignment SEMI | if_stmt | while_stmt | for_stmt | io_stmt SEMI
\*           | return_stmt SEMI | break_stmt SEMI | continue_stmt SEMI | block
ParseStatement(ts, i) ==
    LET t == TokType(ts, i)
    IN  CASE t = "IF" -> ParseIf(ts, i)
          [] t = "WHILE" -> ParseWhile(ts, i)
          [] t = "FOR" -> ParseFor(ts, i)
          [] t = "LBRACE" -> ParseBlock(ts, i)
          [] t \notin {"ID", "PRINT", "INPUT", "RETURN", "BREAK", "CONTINUE"} -> Fail(i)
          [] OTHER ->
                Bind(ParseSimple(ts, i), LAMBDA r :
                    IF ~r.ok THEN r
                    ELSE IF TokType(ts, r.pos) # "SEMI" THEN Fail(r.pos)
                    ELSE Ok(r.node, r.pos + 1))

\* statement_list : statement_list statement | empty, up to the RBRACE
ParseStatementList(ts, acc, i) ==
    IF TokType(ts, i) = "RBRACE" THEN OkList(acc, i)
    ELSE Bind(ParseStatement(ts, i), LAMBDA st :
             IF ~st.ok THEN st
             ELSE ParseStatementList(ts, Append(acc, st.node), st.pos))

\* param_list : param_list COMMA param | param, from the first param
RECURSIVE ParseParamList(_, _, _)
ParseParamList(ts, acc, i) ==
    IF TokType(ts, i) \notin TypeTokens THEN Fail(i)
    ELSE IF TokType(ts, i + 1) # "ID" THEN Fail(i + 1)
    ELSE LET prm == p_param(p_type(ts[i].value), ts[i + 1].value)
         IN  IF TokType(ts, i + 2) = "COMMA"
             THEN ParseParamList(ts, Append(acc, prm), i + 3)
             ELSE OkList(Append(acc, prm), i + 2)

\* param_list_opt : param_list | empty
ParseParamListOpt(ts, i) ==
    IF TokType(ts, i) = "RPAREN" THEN OkList(<<>>, i) ELSE ParseParamList(ts, <<>>, i)

\* func_decl : FUNC ID LPAREN param_list_opt RPAREN block
ParseFuncDecl(ts, i) ==
    IF TokType(ts, i + 1) # "ID" THEN Fail(i + 1)
    ELSE IF TokType(ts, i + 2) # "LPAREN" THEN Fail(i + 2)
    ELSE Bind(ParseParamListOpt(ts, i + 3), LAMBDA ps :
             IF ~ps.ok THEN ps
             ELSE IF TokType(ts, ps.pos) # "RPAREN" THEN Fail(ps.pos)
             ELSE Bind(ParseBlock(ts, ps.pos + 1), LAMBDA b :
                      IF ~b.ok THEN b
                      ELSE Ok(p_func_decl(ts[i + 1].value, p_param_list_opt(ps.list), b.node),
                              b.pos)))

\* var_decl : type ID SEMI | type ID LBRACKET INT_LITERAL RBRACKET SEMI
ParseVarDecl(ts, i) ==
    IF TokType(ts, i + 1) # "ID" THEN Fail(i + 1)
    ELSE IF TokType(ts, i + 2) = "SEMI"
    THEN Ok(p_var_decl_scalar(p_type(ts[i].value), ts[i + 1].value), i + 3)
    ELSE IF TokType(ts, i + 2) # "LBRACKET" THEN Fail(i + 2)
    ELSE IF TokType(ts, i + 3) # "INT_LITERAL" THEN Fail(i + 3)
    ELSE IF TokType(ts, i + 4) # "RBRACKET" THEN Fail(i + 4)
    ELSE IF TokType(ts, i + 5) # "SEMI" THEN Fail(i + 5)
    ELSE Ok(p_var_decl_array(p_type(ts[i].value), ts[i + 1].value, ts[i + 3].value), i + 6)

\* declaration : var_decl | func_decl
ParseDeclaration(ts, i) ==
    IF TokType(ts, i) \in TypeTokens THEN ParseVarDecl(ts, i)
    ELSE IF TokType(ts, i) = "FUNC" THEN ParseFuncDecl(ts, i)
    ELSE Fail(i)

\* program : declaration_list, from the start state with token i next:
\* Ok(program, _) at the end of the input, else the token that has no action
RECURSIVE ParseProgram(_, _, _)
ParseProgram(ts, acc, i) ==
    IF acc # <<>> /\ TokType(ts, i) = "$end" THEN Ok(p_program(acc), i)
    ELSE Bind(ParseDeclaration(ts, i), LAMBDA dcl :
             IF ~dcl.ok THEN dcl ELSE ParseProgram(ts, Append(acc, dcl.node), dcl.pos))

\* yacc's error_count
error_count == 3

\* parser.parse() with the recovery of a grammar that has no error rule: the
\* first unexpected token is reported through p_error, the stack is unwound to
\* the start state, the token is dropped and parsing starts over with the next
\* one; an error within error_count shifts of the last is not reported again;
\* an unexpected end of input returns None.
RECURSIVE yacc_parse(_, _, _, _)
yacc_parse(ts, i, errorcount, reported) ==
    Bind(ParseProgram(ts, <<>>, i), LAMBDA r :
        LET left == IF errorcount > r.pos - i THEN errorcount - (r.pos - i) ELSE 0
            now == IF left = 0 THEN reported + 1 ELSE reported
        IN  IF r.ok THEN [ast |-> r.node, errors |-> reported]
        ELSE IF r.pos > Len(ts) THEN [ast |-> NoneNode, errors |-> now]
        ELSE yacc_parse(ts, r.pos + 1, error_count, now))

\* parser.parse(text): the lexer's tokens of the text, parsed
parser_parse(text) == Bind(Tokenize(text, 0, 1), LAMBDA ts : yacc_parse(ts, 1, 0, 0))

(***************************************************************************)
(* Symbol table (Semantic/symbol_table.py).  scopes is the stack of        *)
(* scopes, innermost last; a scope is the sequence of its entries in the   *)
(* order of their definition.                                              *)
(***************************************************************************)
\* the entry define() stores; param_types is set later, for functions only
Entry(name, type_info, category) ==
    [name |-> name, type |-> type_info, category |-> category,
     param_types |-> <<>>, has_param_types |-> FALSE]

\* Python's None where an entry is expected
NoEntry == Entry(<<>>, "None", "None")

\* name in scope
InScope(scope, name) == \E i \in DOMAIN scope : scope[i].name = name

\* scope[name]
ScopeGet(scope, name) == scope[CHOOSE i \in DOMAIN scope : scope[i].name = name]

enter_scope(sc) == Append(sc, <<>>)

exit_scope_keep(sc) == sc

exit_scope(sc) == SubSeq(sc, 1, Len(sc) - 1)

\* the value define() returns
define_ok(sc, name) == ~InScope(sc[Len(sc)], name)

\* the scopes define() leaves
define(sc, name, type_info, category) ==
    IF InScope(sc[Len(sc)], name) THEN sc
    ELSE [sc EXCEPT ![Len(sc)] = Append(@, Entry(name, type_info, category))]

\* lookup(): the innermost entry of name, NoEntry when there is none
RECURSIVE LookupFrom(_, _, _)
LookupFrom(sc, name, k) ==
    IF k = 0 THEN NoEntry
    ELSE IF InScope(sc[k], name) THEN ScopeGet(sc[k], name)
    ELSE LookupFrom(sc, name, k - 1)

lookup(sc, name) == LookupFrom(sc, name, Len(sc))

(***************************************************************************)
(* Semantic analysis (Semantic/semantic.py).                               *)
(***************************************************************************)
\* the type tag a type keyword, the leaf of a type node, stands for
TypeTag(leaf) ==
    CASE leaf = <<"i", "n", "t">> -> "int"
      [] leaf = <<"f", "l", "o", "a", "t">> -> "float"
      [] leaf = <<"b", "o", "o", "l">> -> "bool"
      [] leaf = <<"c", "h", "a", "r">> -> "char"
      [] leaf = <<"s", "t", "r", "i", "n", "g">> -> "string"
      [] OTHER -> "unknown"

\* one entry of error_list: the message and what it is formatted with
DiagN(kind, name, t1, t2, n, m) ==
    [kind |-> kind, name |-> name, t1 |-> t1, t2 |-> t2, n |-> n, m |-> m]

Diag(kind, name, t1, t2) == DiagN(kind, name, t1, t2, 0, 0)

check_type_compatibility_symmetric(target, source) ==
    \/ target = source
    \/ {target, source} = {"int", "float"}

check_type_compatibility(target, source) ==
    \/ target = source
    \/ (target = "float" /\ source = "int")

\* the result of get_expr_type: the type and the diagnostics it appended
Typed(type, errs) == [type |-> type, errs |-> errs]

\* the type of a literal node, from its leaf
LiteralType(val) ==
    IF val \in {<<"t", "r", "u", "e">>, <<"f", "a", "l", "s", "e">>} THEN "bool"
    ELSE IF At(val, 1) = "'" THEN "char"
    ELSE IF At(val, 1) = "\"" THEN "string"
    ELSE IF \E i \in DOMAIN val : val[i] = "." THEN "float"
    ELSE "int"

ArithmeticOps == {<<"+">>, <<"-">>, <<"*">>, <<"/">>, <<"%">>}

RelationalOps == {<<"<">>, <<">">>, <<"<", "=">>, <<">", "=">>, <<"=", "=">>, <<"!", "=">>}

LogicalOps == {<<"&", "&">>, <<"|", "|">>}

\* the type of a binary operation from the types of its operands
BinOpType(op, left, right) ==
    IF left = "error" \/ right = "error" THEN Typed("error", <<>>)
    ELSE IF op \in ArithmeticOps
    THEN IF left = "int" /\ right = "int" THEN Typed("int", <<>>)
         ELSE IF (left = "float" \/ right = "float")
                 /\ left \in {"int", "float"} /\ right \in {"int", "float"}
         THEN Typed("float", <<>>)
         ELSE Typed("error", <<Diag("invalid_operands", op, left, right)>>)
    ELSE IF op \in RelationalOps
    THEN IF check_type_compatibility(left, right) \/ check_type_compatibility(right, left)
         THEN Typed("bool", <<>>)
         ELSE Typed("error", <<Diag("cannot_compare", <<>>, left, right)>>)
    ELSE IF op \in LogicalOps
    THEN IF left = "bool" /\ right = "bool" THEN Typed("bool", <<>>)
         ELSE Typed("error", <<Diag("logical_operands", <<>>, "", "")>>)
    ELSE Typed("unknown", <<>>)

RECURSIVE get_expr_type(_, _)
get_expr_type(node, sc) ==
    CASE node = NoneNode -> Typed("void", <<>>)
      [] node.type = "literal" -> Typed(LiteralType(node.leaf), <<>>)
      [] node.type = "id" ->
            IF lookup(sc, node.leaf) = NoEntry
            THEN Typed("error", <<Diag("used_before_declaration", node.leaf, "", "")>>)
            ELSE Typed(lookup(sc, node.leaf).type, <<>>)
      [] node.type = "array_access" ->
            IF lookup(sc, node.leaf) = NoEntry THEN Typed("error", <<>>)
            ELSE Typed(lookup(sc, node.leaf).type, <<>>)
      [] node.type = "bin_op" ->
            Bind(get_expr_type(node.children[1], sc), LAMBDA left :
            Bind(get_expr_type(node.children[2], sc), LAMBDA right :
            Bind(BinOpType(node.leaf, left.type, right.type), LAMBDA res :
                Typed(res.type, left.errs \o right.errs \o res.errs))))
      [] node.type = "unary_op" ->
            Bind(get_expr_type(node.children[1], sc), LAMBDA child :
                IF node.leaf = <<"!">> /\ child.type = "bool" THEN child
                ELSE IF node.leaf = <<"-">> /\ child.type \in {"int", "float"} THEN child
                ELSE Typed("error", child.errs))
      [] node.type = "call" ->
            IF lookup(sc, node.leaf) # NoEntry THEN Typed("void", <<>>)
            ELSE Typed("unknown", <<>>)
      [] OTHER -> Typed("unknown", <<>>)

\* handle_var_decl / handle_array_decl: the diagnostics of a declaration
handle_decl_errors(node, sc) ==
    IF define_ok(sc, node.leaf) THEN <<>>
    ELSE IF node.type = "var_decl" THEN <<Diag("variable_already_declared", node.leaf, "", "")>>
    ELSE <<Diag("array_already_declared", node.leaf, "", "")>>

\* handle_var_decl / handle_array_decl: the scopes a declaration leaves
handle_decl_scopes(node, sc) ==
    define(sc, node.leaf, TypeTag(node.children[1].leaf),
           IF node.type = "var_decl" THEN "var" ELSE "array")

\* the scopes after the parameters of params_node are defined, in order
RECURSIVE DefineParams(_, _, _)
DefineParams(sc, params, k) ==
    IF k > Len(params) THEN sc
    ELSE DefineParams(define(sc, params[k].leaf, TypeTag(params[k].children[1].leaf), "var"),
                      params, k + 1)

\* handle_func_decl up to the body: the name is defined in the enclosing scope,
\* a scope is entered, the parameters are defined in it and the parameter types
\* are stored in the enclosing scope's entry of the name
handle_func_decl_scopes(node, sc) ==
    LET func_name == node.leaf
        params == node.children[1].children
        declared == define(sc, func_name, "void", "func")
        inner == DefineParams(enter_scope(declared), params, 1)
        outer == inner[Len(inner) - 1]
        k == CHOOSE i \in DOMAIN outer : outer[i].name = func_name
        param_types == [i \in DOMAIN params |-> TypeTag(params[i].children[1].leaf)]
    IN  [inner EXCEPT ![Len(inner) - 1][k].param_types = param_types,
                      ![Len(inner) - 1][k].has_param_types = TRUE]

handle_func_decl_errors(node, sc) ==
    IF define_ok(sc, node.leaf) THEN <<>>
    ELSE <<Diag("function_already_declared", node.leaf, "", "")>>

\* handle_assignment: the diagnostics it appends
handle_assignment(node, sc) ==
    LET loc_node == node.children[1]
        expr_node == node.children[2]
        lhs_symbol == lookup(sc, loc_node.leaf)
        idx == IF loc_node.type = "array_access"
               THEN get_expr_type(loc_node.children[1], sc)
               ELSE Typed("int", <<>>)
        rhs == get_expr_type(expr_node, sc)
    IN  IF lhs_symbol = NoEntry THEN <<Diag("not_declared", loc_node.leaf, "", "")>>
        ELSE idx.errs
             \o (IF idx.type # "int" THEN <<Diag("index_not_int", <<>>, idx.type, "")>>
                 ELSE <<>>)
             \o rhs.errs
             \o (IF ~check_type_compatibility(lhs_symbol.type, rhs.type)
                 THEN <<Diag("assign_mismatch", <<>>, rhs.type, lhs_symbol.type)>>
                 ELSE <<>>)

\* the condition check of handle_if_stmt, handle_while_stmt and handle_for_stmt
handle_condition(kind, cond_expr, sc) ==
    LET cond == get_expr_type(cond_expr, sc)
    IN  cond.errs \o (IF cond.type # "bool" THEN <<Diag(kind, <<>>, cond.type, "")>> ELSE <<>>)

\* handle_return
handle_return(node, sc, ret_type) ==
    IF ret_type = "None" THEN <<Diag("return_outside_function", <<>>, "", "")>>
    ELSE IF node.children # <<>>
    THEN LET e == get_expr_type(node.children[1], sc)
         IN  e.errs \o (IF ~check_type_compatibility(ret_type, e.type)
                        THEN <<Diag("return_type_mismatch", <<>>, ret_type, e.type)>>
                        ELSE <<>>)
    ELSE IF ret_type # "void" THEN <<Diag("return_type_mismatch", <<>>, ret_type, "void")>>
    ELSE <<>>

CheckArgs_first(defined_params, passed_args, sc, k) ==
    LET bad == {j \in k..Len(passed_args) :
                  ~check_type_compatibility(defined_params[j],
                                            get_expr_type(passed_args[j], sc).type)}
        j == CHOOSE i \in bad : \A o \in bad : i <= o
    IN  IF bad = {} THEN <<>>
        ELSE <<DiagN("argument_mismatch", <<>>, defined_params[j],
                     get_expr_type(passed_args[j], sc).type, j, 0)>>

\* the argument checks of handle_func_call, from argument k on
RECURSIVE CheckArgs(_, _, _, _)
CheckArgs(defined_params, passed_args, sc, k) ==
    IF k > Len(passed_args) THEN <<>>
    ELSE LET arg == get_expr_type(passed_args[k], sc)
         IN  arg.errs
             \o (IF ~check_type_compatibility(defined_params[k], arg.type)
                 THEN <<DiagN("argument_mismatch", <<>>, defined_params[k], arg.type, k, 0)>>
                 ELSE <<>>)
             \o CheckArgs(defined_params, passed_args, sc, k + 1)

\* handle_func_call
handle_func_call(node, sc) ==
    LET func_symbol == lookup(sc, node.leaf)
        defined_params == func_symbol.param_types
        passed_args == node.children[1].children
    IN  IF func_symbol = NoEntry THEN <<Diag("function_not_defined", node.leaf, "", "")>>
        ELSE IF func_symbol.category # "func" THEN <<Diag("not_a_function", node.leaf, "", "")>>
        ELSE IF Len(defined_params) # Len(passed_args)
        THEN <<DiagN("argument_count_mismatch", node.leaf, "", "",
                     Len(defined_params), Len(passed_args))>>
        ELSE CheckArgs(defined_params, passed_args, sc, 1)


(***************************************************************************)
(* iterate(), one call per step.  The agenda holds what the pending calls  *)
(* still have to do, the next first: nodes to iterate and the code that    *)
(* follows a nested iterate() in a handler.                                *)
(***************************************************************************)
Item(k, node) == [k |-> k, node |-> node]

\* iterate(child) for each child, in order
Iterate(children) == [i \in DOMAIN children |-> Item("iterate", children[i])]

\* the state of an analysis run
Analysis(sc, errs, ret_type, ag) ==
    [scopes |-> sc, error_list |-> errs, current_func_ret_type |-> ret_type, agenda |-> ag]

\* the kinds of node iterate() has a handler for
Handled == {"var_decl", "var_decl_array", "func_decl", "assign", "if", "while", "for",
            "return", "call", "block"}

\* iterate(node): the handler of the node's type, then, except after a block,
\* the default traversal of the node's children
iterate(node, st) ==
    LET sc == st.scopes
        errs == st.error_list
        cur == st.current_func_ret_type
        rest == Tail(st.agenda)
        default == Iterate(node.children)
    IN  CASE node.type \in {"var_decl", "var_decl_array"} ->
                Analysis(handle_decl_scopes(node, sc), errs \o handle_decl_errors(node, sc),
                         cur, default \o rest)
          [] node.type = "func_decl" ->
                Analysis(handle_func_decl_scopes(node, sc),
                         errs \o handle_func_decl_errors(node, sc), "void",
                         Iterate(node.children[2].children) \o <<Item("end_func", NoneNode)>>
                           \o default \o rest)
          [] node.type = "assign" ->
                Analysis(sc, errs \o handle_assignment(node, sc), cur, default \o rest)
          [] node.type = "if" ->
                Analysis(sc, errs \o handle_condition("if_condition", node.children[1], sc), cur,
                         Iterate(Tail(node.children)) \o default \o rest)
          [] node.type = "while" ->
                Analysis(sc, errs \o handle_condition("while_condition", node.children[1], sc),
                         cur, <<Item("iterate", node.children[2])>> \o default \o rest)
          [] node.type = "for" ->
                Analysis(sc, errs, cur,
                         <<Item("iterate", node.children[1]), Item("for_condition", node),
                           Item("iterate", node.children[3]), Item("iterate", node.children[4])>>
                           \o default \o rest)
          [] node.type = "return" ->
                Analysis(sc, errs \o handle_return(node, sc, cur), cur, default \o rest)
          [] node.type = "call" ->
                Analysis(sc, errs \o handle_func_call(node, sc), cur, default \o rest)
          [] node.type = "block" ->
                Analysis(enter_scope(sc), errs, cur,
                         Iterate(node.children) \o <<Item("exit_scope", NoneNode)>> \o rest)
          [] OTHER -> Analysis(sc, errs, cur, default \o rest)

\* the next step of the run: the first item of the agenda
SemStep(st) ==
    LET h == Head(st.agenda)
        rest == Tail(st.agenda)
    IN  CASE h.k = "iterate" -> iterate(h.node, st)
          [] h.k = "exit_scope" ->
                Analysis(exit_scope(st.scopes), st.error_list, st.current_func_ret_type, rest)
          [] h.k = "end_func" ->
                Analysis(exit_scope(st.scopes), st.error_list, "None", rest)
          [] OTHER -> \* the condition check of handle_for_stmt
                Analysis(st.scopes,
                         st.error_list
                           \o handle_condition("for_condition", h.node.children[2], st.scopes),
                         st.current_func_ret_type, rest)

\* init(ast) to its end
\* up to 2^k steps of the traversal from st, split in halves so that the
\* evaluation nests k deep
RECURSIVE RunSteps(_, _)
RunSteps(st, k) ==
    IF st.agenda = <<>> THEN st
    ELSE IF k = 0 THEN SemStep(st)
    ELSE Bind(RunSteps(st, k - 1), LAMBDA mid : RunSteps(mid, k - 1))

RECURSIVE RunAnalysis(_)
RunAnalysis(st) ==
    IF st.agenda = <<>> THEN st ELSE Bind(RunSteps(st, 5), LAMBDA next : RunAnalysis(next))

reset_keep_errors(st) ==
    [st EXCEPT !.scopes = <<<<>>>>, !.current_func_ret_type = "None"]

\* the "Reset State" lines of semantic_analysis, applied to the module's
\* globals as an earlier run left them
reset(st) ==
    [st EXCEPT !.scopes = <<<<>>>>, !.error_list = <<>>, !.current_func_ret_type = "None"]

\* semantic_analysis(ast): the state is reset, the tree is iterated
AnalysisStart(tree) ==
    Analysis(<<<<>>>>, <<>>, "None",
             IF tree # NoneNode THEN <<Item("iterate", tree)>> ELSE <<>>)

\* semantic_analysis(ast): the final state of the run; valid iff no diagnostics
semantic_analysis(tree) == RunAnalysis(AnalysisStart(tree))


(***************************************************************************)
(* Code generation (CodeGen/codegeneration.py).  A generator is the record *)
(* of its counters and its two sections; a line of the code section is a   *)
(* label line or an instruction.                                           *)
(***************************************************************************)
\* CodeGenerator.__init__, before generate(ast)
CodeGenerator ==
    [temp_counter |-> 0, label_counter |-> 0, data_section |-> <<>>, code_section |-> <<>>]

\* str(n) of a natural number
RECURSIVE Str(_)
Str(n) ==
    IF n < 10 THEN <<<<"0", "1", "2", "3", "4", "5", "6", "7", "8", "9">>[n + 1]>>
    ELSE Str(n \div 10) \o Str(n % 10)

\* f"\t{op}\t{arg1}, {arg2}, {result}"
Instr(op, arg1, arg2, result) ==
    [label |-> <<>>, op |-> op, arg1 |-> arg1, arg2 |-> arg2, result |-> result]

\* f"{label}:"
LabelLine(label) == [label |-> label, op |-> "", arg1 |-> <<>>, arg2 |-> <<>>, result |-> <<>>]

\* new_temp: the generator after the call; the name is TempName of its counter
new_temp(g) == [g EXCEPT !.temp_counter = @ + 1]

TempName(g) == <<"t">> \o Str(g.temp_counter)

\* new_label, likewise
new_label_same(g) == g

new_label(g) == [g EXCEPT !.label_counter = @ + 1]

LabelName(g) == <<"L">> \o Str(g.label_counter)

emit(g, op, arg1, arg2, result) ==
    [g EXCEPT !.code_section = Append(@, Instr(op, arg1, arg2, result))]

emit_label_none(g, label) == g

emit_label(g, label) == [g EXCEPT !.code_section = Append(@, LabelLine(label))]

add_var_decl(g, name, var_type) ==
    [g EXCEPT !.data_section =
        Append(@, [name |-> name,
                   size |-> IF var_type = <<"i", "n", "t">> THEN "DW" ELSE "DB"])]

\* op_map.get(node.leaf, 'UNKNOWN')
op_map(leaf) ==
    CASE leaf = <<"+">> -> "ADD"
      [] leaf = <<"-">> -> "SUB"
      [] leaf = <<"*">> -> "MUL"
      [] leaf = <<"/">> -> "DIV"
      [] leaf = <<"%">> -> "MOD"
      [] leaf = <<"<">> -> "LT"
      [] leaf = <<">">> -> "GT"
      [] leaf = <<"<", "=">> -> "LE"
      [] leaf = <<">", "=">> -> "GE"
      [] leaf = <<"=", "=">> -> "EQ"
      [] leaf = <<"!", "=">> -> "NE"
      [] leaf = <<"&", "&">> -> "AND"
      [] leaf = <<"|", "|">> -> "OR"
      [] OTHER -> "UNKNOWN"

\* what gen_expr leaves: the generator and the name that holds the value
Held(g, res) == [g |-> g, res |-> res]

RECURSIVE gen_expr(_, _)
RECURSIVE GenArgs(_, _, _, _)

\* the loop "for arg in args_node.children: arg_temps.append(self.gen_expr(arg))"
\* from argument k on; res is arg_temps
GenArgs(args, k, g, arg_temps) ==
    IF k > Len(args) THEN Held(g, arg_temps)
    ELSE Bind(gen_expr(args[k], g), LAMBDA a :
             GenArgs(args, k + 1, a.g, Append(arg_temps, a.res)))

\* the loop "for t in arg_temps: self.emit('PARAM', t, '', '')" from temp k on
RECURSIVE EmitParams(_, _, _)
EmitParams(g, arg_temps, k) ==
    IF k > Len(arg_temps) THEN g
    ELSE EmitParams(emit(g, "PARAM", arg_temps[k], <<>>, <<>>), arg_temps, k + 1)

gen_expr(node, g) ==
    CASE node.type \in {"literal", "id"} -> Held(g, node.leaf)
      [] node.type = "array_access" ->
            Bind(gen_expr(node.children[1], g), LAMBDA idx :
            Bind(new_temp(idx.g), LAMBDA g1 :
                Held(emit(g1, "ALOAD", node.leaf, idx.res, TempName(g1)), TempName(g1))))
      [] node.type = "bin_op" ->
            Bind(gen_expr(node.children[1], g), LAMBDA t1 :
            Bind(gen_expr(node.children[2], t1.g), LAMBDA t2 :
            Bind(new_temp(t2.g), LAMBDA g1 :
                Held(emit(g1, op_map(node.leaf), t1.res, t2.res, TempName(g1)),
                         TempName(g1)))))
      [] node.type = "unary_op" ->
            Bind(gen_expr(node.children[1], g), LAMBDA t1 :
            Bind(new_temp(t1.g), LAMBDA g1 :
                Held(IF node.leaf = <<"-">> THEN emit(g1, "NEG", t1.res, <<>>, TempName(g1))
                         ELSE IF node.leaf = <<"!">>
                         THEN emit(g1, "NOT", t1.res, <<>>, TempName(g1))
                         ELSE g1,
                         TempName(g1))))
      [] node.type = "call" ->
            Bind(GenArgs(node.children[1].children, 1, g, <<>>), LAMBDA args :
            Bind(new_temp(EmitParams(args.g, args.res, 1)), LAMBDA g1 :
                Held(emit(g1, "CALL", node.leaf, Str(Len(args.res)), TempName(g1)),
                         TempName(g1))))
      [] OTHER -> Held(g, <<>>)

RECURSIVE generate(_, _)

\* "for child in nodes: self.generate(child)" from node k on
RECURSIVE GenList(_, _, _)
GenList(nodes, k, g) ==
    IF k > Len(nodes) THEN g
    ELSE Bind(generate(nodes[k], g), LAMBDA g1 : GenList(nodes, k + 1, g1))

gen_var_decl(node, g) == add_var_decl(g, node.leaf, node.children[1].leaf)

gen_func_decl_no_ret(node, g) ==
    generate(node.children[2], emit_label(g, <<"F", "U", "N", "C", "_">> \o node.leaf))

gen_func_decl(node, g) ==
    Bind(generate(node.children[2], emit_label(g, <<"F", "U", "N", "C", "_">> \o node.leaf)),
         LAMBDA g1 : emit(g1, "RET", <<>>, <<>>, <<>>))

gen_assign(node, g) ==
    Bind(gen_expr(node.children[2], g), LAMBDA result_temp :
        IF node.children[1].type = "array_access"
        THEN Bind(gen_expr(node.children[1].children[1], result_temp.g), LAMBDA idx_expr :
                 emit(idx_expr.g, "ASTORE", result_temp.res, idx_expr.res,
                      node.children[1].leaf))
        ELSE emit(result_temp.g, "MOV", result_temp.res, <<>>, node.children[1].leaf))

\* the loop of gen_if over the children after the true block, from child k on
RECURSIVE GenIfParts(_, _, _, _)
GenIfParts(node, k, label_exit, g) ==
    IF k > Len(node.children) THEN g
    ELSE IF node.children[k].type = "elif"
    THEN Bind(new_label(g), LAMBDA g1 :
         Bind(gen_expr(node.children[k].children[1], g1), LAMBDA elif_cond :
         Bind(generate(node.children[k].children[2],
                       emit(elif_cond.g, "JPF", elif_cond.res, LabelName(g1), <<>>)),
              LAMBDA g2 :
                GenIfParts(node, k + 1, label_exit,
                           emit_label(emit(g2, "JMP", label_exit, <<>>, <<>>), LabelName(g1))))))
    ELSE IF node.children[k].type = "else"
    THEN Bind(generate(node.children[k].children[1], g), LAMBDA g1 :
             GenIfParts(node, k + 1, label_exit, g1))
    ELSE GenIfParts(node, k + 1, label_exit, g)

gen_if(node, g) ==
    Bind(new_label(g), LAMBDA g1 :
    Bind(new_label(g1), LAMBDA g2 :
    Bind(gen_expr(node.children[1], g2), LAMBDA cond_temp :
    Bind(generate(node.children[2],
                  emit(cond_temp.g, "JPF", cond_temp.res, LabelName(g1), <<>>)),
         LAMBDA g3 :
    Bind(GenIfParts(node, 3, LabelName(g2),
                    emit_label(emit(g3, "JMP", LabelName(g2), <<>>, <<>>), LabelName(g1))),
         LAMBDA g4 : emit_label(g4, LabelName(g2)))))))

gen_while(node, g) ==
    Bind(new_label(g), LAMBDA g1 :
    Bind(new_label(g1), LAMBDA g2 :
    Bind(gen_expr(node.children[1], emit_label(g2, LabelName(g1))), LAMBDA cond_temp :
    Bind(generate(node.children[2],
                  emit(cond_temp.g, "JPF", cond_temp.res, LabelName(g2), <<>>)),
         LAMBDA g3 :
            emit_label(emit(g3, "JMP", LabelName(g1), <<>>, <<>>), LabelName(g2))))))

gen_for_update_first(node, g) ==
    Bind(new_label(g), LAMBDA g1 :
    Bind(new_label(g1), LAMBDA g2 :
    Bind(generate(node.children[1], g2), LAMBDA g3 :
    Bind(gen_expr(node.children[2], emit_label(g3, LabelName(g1))), LAMBDA cond_temp :
    Bind(generate(node.children[3],
                  emit(cond_temp.g, "JPF", cond_temp.res, LabelName(g2), <<>>)),
         LAMBDA g4 :
    Bind(generate(node.children[4], g4), LAMBDA g5 :
            emit_label(emit(g5, "JMP", LabelName(g1), <<>>, <<>>), LabelName(g2))))))))

gen_for(node, g) ==
    Bind(new_label(g), LAMBDA g1 :
    Bind(new_label(g1), LAMBDA g2 :
    Bind(generate(node.children[1], g2), LAMBDA g3 :
    Bind(gen_expr(node.children[2], emit_label(g3, LabelName(g1))), LAMBDA cond_temp :
    Bind(generate(node.children[4],
                  emit(cond_temp.g, "JPF", cond_temp.res, LabelName(g2), <<>>)),
         LAMBDA g4 :
    Bind(generate(node.children[3], g4), LAMBDA g5 :
            emit_label(emit(g5, "JMP", LabelName(g1), <<>>, <<>>), LabelName(g2))))))))

gen_print(node, g) ==
    Bind(gen_expr(node.children[1], g), LAMBDA val_temp :
        emit(val_temp.g, "PRINT", val_temp.res, <<>>, <<>>))

gen_input(node, g) == emit(g, "READ", <<>>, <<>>, node.leaf)

\* generate(): the gen_<type> method of the node, gen_children when there is none
generate(node, g) ==
    CASE node.type \in {"program", "block"} -> GenList(node.children, 1, g)
      [] node.type = "var_decl" -> gen_var_decl(node, g)
      [] node.type = "func_decl" -> gen_func_decl(node, g)
      [] node.type = "assign" -> gen_assign(node, g)
      [] node.type = "if" -> gen_if(node, g)
      [] node.type = "while" -> gen_while(node, g)
      [] node.type = "for" -> gen_for(node, g)
      [] node.type = "print" -> gen_print(node, g)
      [] node.type = "input" -> gen_input(node, g)
      [] OTHER -> GenList(node.children, 1, g)

(***************************************************************************)
(* Values of the variables a behaviour does not use                        *)
(***************************************************************************)
IdleLexer == lexdata = <<>> /\ lexpos = 0 /\ lineno = 1 /\ toks = <<>>

IdleDriver == /\ driver = "none" /\ ran = <<>> /\ lexical_errors = <<>>
              /\ code_section = <<>> /\ data_section = <<>>

IdleParser == ast = NoneNode /\ syntax_errors = 0 /\ ptoks = <<>>

IdleSemantic == /\ scopes = <<>> /\ error_list = <<>>
                /\ current_func_ret_type = "None"
                /\ agenda = <<>> /\ is_valid = FALSE

lexerVars == <<lexdata, lexpos, lineno, toks>>

driverVars == <<driver, ran, lexical_errors, code_section, data_section>>

parserVars == <<ast, syntax_errors, ptoks>>

semanticVars == <<scopes, error_list, current_func_ret_type, agenda, is_valid>>

(***************************************************************************)
(* The lexer on its own: lexer.input(text), then the scanning loop, one    *)
(* iteration per step.                                                     *)
(***************************************************************************)
MaxSrcLen == 4

LexAlphabet == {"1", "a", "$", "\n", " ", "+"}

RECURSIVE Texts(_)
Texts(n) == IF n = 0 THEN {<<>>}
            ELSE Texts(n - 1) \cup
                 {Append(t, c) : t \in {u \in Texts(n - 1) : Len(u) = n - 1}, c \in LexAlphabet}

\* texts that exercise the rules the alphabet above does not reach
LexCorpus ==
    { <<"1", "2", "3", "a", "b", "c">>,
      <<"0", "x", "1", "F", " ", "3", ".", "1", "4">>,
      <<"/", "*", "\n", "*", "/", "a", "$">>,
      <<"/", "/", "$", "\n", "x", "=", "=", "'", "c", "'", ";">>,
      <<"\"", "s", "\n", "\"", " ", "@", "b", "\n", "i", "f">> }

InitLexer ==
    /\ mode = "lexer"
    /\ pc = "scan"
    /\ lexdata \in Texts(MaxSrcLen) \cup LexCorpus
    /\ lexpos = 0
    /\ lineno = 1
    /\ toks = <<>>
    /\ IdleDriver /\ IdleParser /\ IdleSemantic

\* the effect of one scanning iteration on the lexer's state
Scanned(s) ==
    /\ lexpos' = s.lexpos
    /\ lineno' = s.lineno
    /\ toks' = IF s.tok = NoToken THEN toks ELSE Append(toks, s.tok)
    /\ UNCHANGED <<mode, pc, lexdata, driverVars, parserVars, semanticVars>>

Scanning == mode = "lexer" /\ lexpos < Len(lexdata)

\* a blank or tab is skipped
SkipIgnored ==
    /\ Scanning
    /\ Rule(lexdata, lexpos) = "t_ignore"
    /\ Scanned(LexStep(lexdata, lexpos, lineno))

\* a comment is discarded
SkipComment ==
    /\ Scanning
    /\ Rule(lexdata, lexpos) \in {"t_ignore_COMMENT_MULTI", "t_ignore_COMMENT_SINGLE"}
    /\ Scanned(LexStep(lexdata, lexpos, lineno))

\* t_newline counts the lines and returns nothing
CountNewlines ==
    /\ Scanning
    /\ Rule(lexdata, lexpos) = "t_newline"
    /\ Scanned(LexStep(lexdata, lexpos, lineno))

\* a literal, identifier, keyword, operator or separator is returned
ReturnToken ==
    /\ Scanning
    /\ Rule(lexdata, lexpos) \in {"t_FLOAT_LITERAL", "t_INT_LITERAL", "t_CHAR_LITERAL",
                                  "t_STRING_LITERAL", "t_ID", "simple"}
    /\ Scanned(LexStep(lexdata, lexpos, lineno))

\* no rule matches: t_error
LexError ==
    /\ Scanning
    /\ Rule(lexdata, lexpos) = "t_error"
    /\ Scanned(LexStep(lexdata, lexpos, lineno))

NextLexer == SkipIgnored \/ SkipComment \/ CountNewlines \/ ReturnToken \/ LexError

SpecLexer == InitLexer /\ [][NextLexer]_vars

(***************************************************************************)
(* The semantic analyzer on its own: semantic_analysis(ast) over the trees *)
(* the Node constructors build, one call of iterate() per step.            *)
(***************************************************************************)
MaxDecls == 2

Name(c) == <<c>>

TypeNode(t) ==
    p_type(CASE t = "int" -> <<"i", "n", "t">>
             [] t = "float" -> <<"f", "l", "o", "a", "t">>
             [] OTHER -> <<"b", "o", "o", "l">>)

Id(c) == p_location_id(Name(c))

Lit(c) == p_literal(Name(c))

\* declarations of x a scope may hold
DeclChoices ==
    { p_var_decl_scalar(TypeNode("int"), Name("x")),
      p_var_decl_array(TypeNode("float"), Name("x"), Name("2")) }

RECURSIVE DeclLists(_)
DeclLists(n) ==
    IF n = 0 THEN {<<>>}
    ELSE DeclLists(n - 1) \cup
         {Append(l, d) : l \in {u \in DeclLists(n - 1) : Len(u) = n - 1}, d \in DeclChoices}

\* the body of the inner block
BlockBodies ==
    { <<>>,
      <<p_var_decl_scalar(TypeNode("int"), Name("x"))>>,
      <<p_var_decl_scalar(TypeNode("int"), Name("x")), p_assignment(Id("x"), Lit("1"))>> }

\* the statement with the inner block
Nesting(kind, body) ==
    CASE kind = "while" -> p_while_stmt(p_literal(<<"t", "r", "u", "e">>), p_block(body))
      [] kind = "if" -> p_if_stmt(p_expr_binop(Id("y"), Name("<"), Lit("1")), p_block(body),
                                  NoneNode, NoneNode)
      [] OTHER -> p_for_stmt(p_assignment(Id("i"), Lit("0")),
                             p_expr_binop(Id("i"), Name("<"), Lit("3")),
                             p_assignment(Id("i"), p_expr_binop(Id("i"), Name("+"), Lit("1"))),
                             p_block(body))

\* the assignment after the inner block
AfterChoices ==
    { p_assignment(Id("x"), Lit("1")),
      p_assignment(Id("y"), Id("x")),
      p_assignment(Id("y"), p_expr_binop(Id("x"), Name("+"), Lit("1"))),
      p_assignment(Id("y"), p_location_array(Name("a"), Id("x"))),
      p_assignment(p_location_array(Name("a"), Id("x")), Lit("1")),
      p_assignment(Id("y"), Lit("1")) }

\* globals; func f() { int y; int a[2]; int i; locals; nesting { body } after }
Program(globals, locals, kind, body, after) ==
    p_program(
        globals \o
        <<p_func_decl(Name("f"), p_param_list_opt(<<>>),
            p_block(<<p_var_decl_scalar(TypeNode("int"), Name("y")),
                      p_var_decl_array(TypeNode("int"), Name("a"), Name("2")),
                      p_var_decl_scalar(TypeNode("int"), Name("i"))>>
                    \o locals \o <<Nesting(kind, body), after>>))>>)

GlobalChoices == {<<>>, <<p_var_decl_scalar(TypeNode("float"), Name("x"))>>}

\* programs, as the parser builds them, with the statements the family above lacks:
\*   int y; func g(int p){return;} func m(){y=g(1); return y;}
\*   func m(){if(true){} elif(true){print(1);} else{input(y);}}
\*   func f(int p){} func f(){}
\*   int f; func f(int p){}
SemCorpus ==
    { <<"i", "n", "t", " ", "y", ";", " ", "f", "u", "n", "c", " ", "g", "(", "i", "n",
        "t", " ", "p", ")", "{", "r", "e", "t", "u", "r", "n", ";", "}", " ", "f", "u",
        "n", "c", " ", "m", "(", ")", "{", "y", "=", "g", "(", "1", ")", ";", " ", "r",
        "e", "t", "u", "r", "n", " ", "y", ";", "}">>,
      <<"f", "u", "n", "c", " ", "m", "(", ")", "{", "i", "f", "(", "t", "r", "u", "e",
        ")", "{", "}", " ", "e", "l", "i", "f", "(", "t", "r", "u", "e", ")", "{", "p",
        "r", "i", "n", "t", "(", "1", ")", ";", "}", " ", "e", "l", "s", "e", "{", "i",
        "n", "p", "u", "t", "(", "y", ")", ";", "}", "}">>,
      <<"f", "u", "n", "c", " ", "f", "(", "i", "n", "t", " ", "p", ")", "{", "}", " ",
        "f", "u", "n", "c", " ", "f", "(", ")", "{", "}">>,
      <<"i", "n", "t", " ", "f", ";", " ", "f", "u", "n", "c", " ", "f", "(", "i", "n",
        "t", " ", "p", ")", "{", "}">> }

\* the type names of p_type
TypeLeaves ==
    {<<"i", "n", "t">>, <<"f", "l", "o", "a", "t">>, <<"b", "o", "o", "l">>,
     <<"c", "h", "a", "r">>, <<"s", "t", "r", "i", "n", "g">>}

\* T v; S w; bool b; func g(){ }  func m(){ lhs = rhs; b = v == w; }
CompatProgram(T, S, lhs, rhs) ==
    p_program(
        <<p_var_decl_scalar(p_type(T), Name("v")),
          p_var_decl_scalar(p_type(S), Name("w")),
          p_var_decl_scalar(TypeNode("bool"), Name("b")),
          p_func_decl(Name("g"), p_param_list_opt(<<>>), p_block(<<>>)),
          p_func_decl(Name("m"), p_param_list_opt(<<>>),
            p_block(<<p_assignment(Id(lhs), Id(rhs)),
                      p_assignment(Id("b"),
                                   p_expr_binop(Id("v"), <<"=", "=">>, Id("w")))>>))>>)

CompatPrograms ==
    { CompatProgram(T, S, l, r) : T \in TypeLeaves, S \in TypeLeaves,
                                  l \in {"v", "g"}, r \in {"w", "g"} }

\* the literals 1, true and 2.5
ArgChoices == {Lit("1"), p_literal(<<"t", "r", "u", "e">>), p_literal(<<"2", ".", "5">>)}

MaxArgs == 3

RECURSIVE ArgLists(_)
ArgLists(n) ==
    IF n = 0 THEN {<<>>}
    ELSE ArgLists(n - 1) \cup
         {Append(l, a) : l \in {u \in ArgLists(n - 1) : Len(u) = n - 1}, a \in ArgChoices}

\* func f(int p, bool q){ }  func m(){ f(args); }
CallProgram(args) ==
    p_program(
        <<p_func_decl(Name("f"),
                      p_param_list_opt(<<p_param(TypeNode("int"), Name("p")),
                                         p_param(TypeNode("bool"), Name("q"))>>),
                      p_block(<<>>)),
          p_func_decl(Name("m"), p_param_list_opt(<<>>),
                      p_block(<<p_func_call(Name("f"), p_arg_list_opt(args))>>))>>)

CallPrograms == {CallProgram(args) : args \in ArgLists(MaxArgs)}

\* T y; func f(T p){ y = p; }
ParamProgram(T) ==
    p_program(
        <<p_var_decl_scalar(p_type(T), Name("y")),
          p_func_decl(Name("f"), p_param_list_opt(<<p_param(p_type(T), Name("p"))>>),
                      p_block(<<p_assignment(Id("y"), Id("p"))>>))>>)

ParamPrograms == {ParamProgram(T) : T \in TypeLeaves}

\* func f(){ return e; }, and a return statement that is in no function
ReturnProgram(e) ==
    p_program(<<p_func_decl(Name("f"), p_param_list_opt(<<>>),
                            p_block(<<p_return_stmt(e)>>))>>)

ReturnOutside == p_program(<<p_return_stmt(NoneNode)>>)

ReturnPrograms == {ReturnProgram(NoneNode), ReturnProgram(Lit("1")), ReturnOutside}

\* the statements that use the undeclared name u, or add 1 and true, in each
\* place an expression can stand
MisuseChoices ==
    LET u == Id("u")
        sum == p_expr_binop(Lit("1"), Name("+"), p_literal(<<"t", "r", "u", "e">>))
        true == p_literal(<<"t", "r", "u", "e">>)
        empty == p_block(<<>>)
        step == p_assignment(Id("y"), Lit("1"))
    IN  UNION { { p_assignment(Id("y"), e),
                  p_assignment(p_location_array(Name("a"), e), Lit("1")),
                  p_assignment(Id("y"), p_location_array(Name("a"), e)),
                  p_if_stmt(e, empty, NoneNode, NoneNode),
                  p_if_stmt(true, empty, p_elif_part(e, empty, NoneNode), NoneNode),
                  p_while_stmt(e, empty),
                  p_for_stmt(step, e, step, empty),
                  p_io_stmt_print(e),
                  p_return_stmt(e),
                  p_func_call(Name("m"), p_arg_list_opt(<<e>>)) } : e \in {u, sum} }
        \cup {p_assignment(u, Lit("1"))}

\* int y; int a[2]; func m(){ stmt }
MisuseProgram(stmt) ==
    p_program(
        <<p_var_decl_scalar(TypeNode("int"), Name("y")),
          p_var_decl_array(TypeNode("int"), Name("a"), Name("2")),
          p_func_decl(Name("m"), p_param_list_opt(<<>>), p_block(<<stmt>>))>>)

MisusePrograms == {MisuseProgram(stmt) : stmt \in MisuseChoices}

SemTrees ==
    { Program(g, l, k, b, a) : g \in GlobalChoices, l \in DeclLists(MaxDecls),
                               k \in {"while", "if", "for"}, b \in BlockBodies,
                               a \in AfterChoices }
      \cup {parser_parse(text).ast : text \in SemCorpus}
      \cup CompatPrograms
      \cup CallPrograms
      \cup ParamPrograms
      \cup ReturnPrograms
      \cup MisusePrograms

InitSemantic ==
    /\ mode = "semantic"
    /\ pc = "run"
    /\ ast \in SemTrees
    /\ scopes = AnalysisStart(ast).scopes
    /\ error_list = AnalysisStart(ast).error_list
    /\ current_func_ret_type = AnalysisStart(ast).current_func_ret_type
    /\ agenda = AnalysisStart(ast).agenda
    /\ is_valid = FALSE
    /\ syntax_errors = 0 /\ ptoks = <<>>
    /\ IdleLexer /\ IdleDriver

\* the state of the run, as a record
Current == Analysis(scopes, error_list, current_func_ret_type, agenda)

\* the effect of one step of the run
Analysed(st) ==
    /\ scopes' = st.scopes
    /\ error_list' = st.error_list
    /\ current_func_ret_type' = st.current_func_ret_type
    /\ agenda' = st.agenda
    /\ UNCHANGED <<mode, pc, is_valid, lexerVars, driverVars, parserVars>>

\* iterate() is about to be called on a node of one of these types
Iterating(types) ==
    /\ mode \in {"semantic", "driver", "rerun"} /\ pc = "run" /\ agenda # <<>>
    /\ Head(agenda).k = "iterate"
    /\ Head(agenda).node.type \in types

\* the code after a nested iterate() is about to run
Resuming(k) ==
    /\ mode \in {"semantic", "driver", "rerun"} /\ pc = "run" /\ agenda # <<>>
    /\ Head(agenda).k = k

handle_var_decl == Iterating({"var_decl"}) /\ Analysed(SemStep(Current))

handle_array_decl == Iterating({"var_decl_array"}) /\ Analysed(SemStep(Current))

handle_func_decl == Iterating({"func_decl"}) /\ Analysed(SemStep(Current))

handle_func_decl_end == Resuming("end_func") /\ Analysed(SemStep(Current))

handle_assignment_stmt == Iterating({"assign"}) /\ Analysed(SemStep(Current))

handle_if_stmt == Iterating({"if"}) /\ Analysed(SemStep(Current))

handle_while_stmt == Iterating({"while"}) /\ Analysed(SemStep(Current))

handle_for_stmt == Iterating({"for"}) /\ Analysed(SemStep(Current))

handle_for_stmt_condition == Resuming("for_condition") /\ Analysed(SemStep(Current))

handle_return_stmt == Iterating({"return"}) /\ Analysed(SemStep(Current))

handle_func_call_node == Iterating({"call"}) /\ Analysed(SemStep(Current))

iterate_block == Iterating({"block"}) /\ Analysed(SemStep(Current))

iterate_block_exit == Resuming("exit_scope") /\ Analysed(SemStep(Current))

\* a node with no handler: the default traversal only
iterate_default ==
    /\ mode \in {"semantic", "driver", "rerun"} /\ pc = "run" /\ agenda # <<>>
    /\ Head(agenda).k = "iterate"
    /\ Head(agenda).node.type \notin Handled
    /\ Analysed(SemStep(Current))

\* semantic_analysis returns: valid iff no diagnostics
semantic_analysis_return ==
    /\ mode \in {"semantic", "driver", "rerun"} /\ pc = "run" /\ agenda = <<>>
    /\ pc' = IF mode = "driver" THEN "analysed" ELSE "done"
    /\ is_valid' = (error_list = <<>>)
    /\ UNCHANGED <<mode, scopes, error_list, current_func_ret_type, agenda,
                   lexerVars, driverVars, parserVars>>

NextSemantic ==
    \/ handle_var_decl \/ handle_array_decl \/ handle_func_decl \/ handle_func_decl_end
    \/ handle_assignment_stmt \/ handle_if_stmt \/ handle_while_stmt \/ handle_for_stmt
    \/ handle_for_stmt_condition \/ handle_return_stmt \/ handle_func_call_node
    \/ iterate_block \/ iterate_block_exit \/ iterate_default \/ semantic_analysis_return

SpecSemantic == InitSemantic /\ [][NextSemantic]_vars

(***************************************************************************)
(* The parser on its own: parser.parse() over the tokens of                *)
(* "func m(){y=1 op1 2 op2 3;}" for every pair of binary operators, and of *)
(* a few texts that reach the other productions and the error recovery.    *)
(***************************************************************************)
OperatorTexts ==
    { <<"|", "|">>, <<"&", "&">>, <<"=", "=">>, <<"!", "=">>, <<"<">>, <<">">>,
      <<"<", "=">>, <<">", "=">>, <<"+">>, <<"-">>, <<"*">>, <<"/">>, <<"%">> }

ExprPrefix == <<"f", "u", "n", "c", " ", "m", "(", ")", "{", "y", "=">>

\* func m(){y=1 op1 2 op2 3;}
ExprText(op1, op2) == ExprPrefix \o <<"1">> \o op1 \o <<"2">> \o op2 \o <<"3", ";", "}">>

\* func m(){y=-1*!2;}    func m(){y=(1+2)*a[3];}    ; int x;    int x[2]; func
ParserCorpus ==
    { ExprPrefix \o <<"-", "1", "*", "!", "2", ";", "}">>,
      ExprPrefix \o <<"(", "1", "+", "2", ")", "*", "a", "[", "3", "]", ";", "}">>,
      <<";", " ", "i", "n", "t", " ", "x", ";">>,
      <<"i", "n", "t", " ", "x", "[", "2", "]", ";", " ", "f", "u", "n", "c">> }

InitParser ==
    /\ mode = "parser"
    /\ pc = "parse"
    /\ ptoks \in {Tokenize(text, 0, 1) :
                    text \in {ExprText(op1, op2) : op1 \in OperatorTexts, op2 \in OperatorTexts}
                               \cup ParserCorpus}
    /\ ast = NoneNode
    /\ syntax_errors = 0
    /\ IdleLexer /\ IdleDriver /\ IdleSemantic

\* result = parser.parse(...): the tree, and the syntax errors p_error reported
parse ==
    /\ mode = "parser" /\ pc = "parse"
    /\ pc' = "done"
    /\ ast' = yacc_parse(ptoks, 1, 0, 0).ast
    /\ syntax_errors' = yacc_parse(ptoks, 1, 0, 0).errors
    /\ UNCHANGED <<mode, ptoks, lexerVars, driverVars, semanticVars>>

NextParser == parse

SpecParser == InitParser /\ [][NextParser]_vars

(***************************************************************************)
(* The driver: one compilation of a source text by main() of main.py      *)
(* ("cli") or by run_compiler() of gui.py ("gui").  ran lists the stages   *)
(* that have run.                                                          *)
(***************************************************************************)
\* func main(){ int x; x = 2 + 3; print(x); }
EndToEndSource ==
    <<"f", "u", "n", "c", " ", "m", "a", "i", "n", "(", ")", "{", " ", "i", "n", "t", " ",
    "x", ";", " ", "x", " ", "=", " ", "2", " ", "+", " ", "3", ";", " ", "p", "r", "i",
    "n", "t", "(", "x", ")", ";", " ", "}">>

\* the other source texts compiled:
\*   ; int x;
\*   int x; func main(){ x = 2 + 3; print(x); }
\*   int x; func main(){ x = 2.5; }
\*   int x; $ y\nint z; @
\*   int x
\*   123abc;
\*   func f(){ } func f(){ }
\*   int x; func g(){ return; } func m(){ x = g(); }
\*   int i; func m(){ for(i=0;i<3;i=i+1){ if(i==1){ print(i); } else { input(i); } } }
\*   /* c */ int a[2];\nfunc m(){ while(a[0]<2){ a[0]=a[0]*2; } return; } // end
DriverCorpus ==
    { <<"i", "n", "t", " ", "x", ";", " ", "f", "u", "n", "c", " ", "g", "(", ")", "{",
        " ", "r", "e", "t", "u", "r", "n", ";", " ", "}", " ", "f", "u", "n", "c", " ",
        "m", "(", ")", "{", " ", "x", " ", "=", " ", "g", "(", ")", ";", " ", "}">>,
      <<";", " ", "i", "n", "t", " ", "x", ";">>,
      <<"i", "n", "t", " ", "x", ";", " ", "f", "u", "n", "c", " ", "m", "a", "i", "n",
        "(", ")", "{", " ", "x", " ", "=", " ", "2", " ", "+", " ", "3", ";", " ", "p",
        "r", "i", "n", "t", "(", "x", ")", ";", " ", "}">>,
      <<"i", "n", "t", " ", "x", ";", " ", "f", "u", "n", "c", " ", "m", "a", "i", "n",
        "(", ")", "{", " ", "x", " ", "=", " ", "2", ".", "5", ";", " ", "}">>,
      <<"i", "n", "t", " ", "x", ";", " ", "$", " ", "y", "\n", "i", "n", "t", " ", "z",
        ";", " ", "@">>,
      <<"i", "n", "t", " ", "x">>,
      <<"1", "2", "3", "a", "b", "c", ";">>,
      <<"f", "u", "n", "c", " ", "f", "(", ")", "{", " ", "}", " ", "f", "u", "n", "c",
        " ", "f", "(", ")", "{", " ", "}">>,
      <<"i", "n", "t", " ", "i", ";", " ", "f", "u", "n", "c", " ", "m", "(", ")", "{",
        " ", "f", "o", "r", "(", "i", "=", "0", ";", "i", "<", "3", ";", "i", "=", "i",
        "+", "1", ")", "{", " ", "i", "f", "(", "i", "=", "=", "1", ")", "{", " ", "p",
        "r", "i", "n", "t", "(", "i", ")", ";", " ", "}", " ", "e", "l", "s", "e", " ",
        "{", " ", "i", "n", "p", "u", "t", "(", "i", ")", ";", " ", "}", " ", "}", " ",
        "}">>,
      <<"/", "*", " ", "c", " ", "*", "/", " ", "i", "n", "t", " ", "a", "[", "2", "]",
        ";", "\n", "f", "u", "n", "c", " ", "m", "(", ")", "{", " ", "w", "h", "i", "l",
        "e", "(", "a", "[", "0", "]", "<", "2", ")", "{", " ", "a", "[", "0", "]", "=",
        "a", "[", "0", "]", "*", "2", ";", " ", "}", " ", "r", "e", "t", "u", "r", "n",
        ";", " ", "}", " ", "/", "/", " ", "e", "n", "d">> }

\* programs that assign one literal to a variable of the literal's type:
\*   char c; func m(){ c = 'a'; }
\*   string s; func m(){ s = "hi"; }
\*   float f; func m(){ f = 1e5; }
\*   int x; func m(){ x = 0x1F; }
\*   bool b; func m(){ b = true; }
LiteralCorpus ==
    { <<"c", "h", "a", "r", " ", "c", ";", " ", "f", "u", "n", "c", " ", "m", "(",
        ")", "{", " ", "c", " ", "=", " ", "'", "a", "'", ";", " ", "}">>,
      <<"s", "t", "r", "i", "n", "g", " ", "s", ";", " ", "f", "u", "n", "c", " ",
        "m", "(", ")", "{", " ", "s", " ", "=", " ", "\"", "h", "i", "\"", ";", " ",
        "}">>,
      <<"f", "l", "o", "a", "t", " ", "f", ";", " ", "f", "u", "n", "c", " ", "m",
        "(", ")", "{", " ", "f", " ", "=", " ", "1", "e", "5", ";", " ", "}">>,
      <<"i", "n", "t", " ", "x", ";", " ", "f", "u", "n", "c", " ", "m", "(", ")",
        "{", " ", "x", " ", "=", " ", "0", "x", "1", "F", ";", " ", "}">>,
      <<"b", "o", "o", "l", " ", "b", ";", " ", "f", "u", "n", "c", " ", "m", "(",
        ")", "{", " ", "b", " ", "=", " ", "t", "r", "u", "e", ";", " ", "}">> }

\* a program whose variables are named like a temporary and like a label:
\*   int t1; int L1; func m(){ t1 = t1 + 1; if(t1 < 2){ L1 = t1 * 2; } }
TempNameSource ==
    <<"i", "n", "t", " ", "t", "1", ";", " ", "i", "n", "t", " ", "L", "1", ";",
      " ", "f", "u", "n", "c", " ", "m", "(", ")", "{", " ", "t", "1", " ", "=", " ",
      "t", "1", " ", "+", " ", "1", ";", " ", "i", "f", "(", "t", "1", " ", "<", " ",
      "2", ")", "{", " ", "L", "1", " ", "=", " ", "t", "1", " ", "*", " ", "2", ";",
      " ", "}", " ", "}">>

InitDriver ==
    /\ mode = "driver"
    /\ driver \in {"cli", "gui"}
    /\ pc = "scan"
    /\ lexdata \in DriverCorpus \cup LiteralCorpus \cup {EndToEndSource, TempNameSource, <<>>}
    /\ lexpos = 0 /\ lineno = 1 /\ toks = <<>>
    /\ ran = <<>> /\ lexical_errors = <<>>
    /\ code_section = <<>> /\ data_section = <<>>
    /\ IdleParser /\ IdleSemantic

\* the flags of the pipeline
stage_lexer_ok == lexical_errors = <<>>

stage_parser_ok == stage_lexer_ok /\ ast # NoneNode

\* a driver that would generate code whatever the analysis returned
stage_semantic_ok_always == TRUE

stage_semantic_ok == stage_parser_ok /\ is_valid

\* one iteration of "while True: tok = lexer.token() ...": the loop ends when
\* the input does, and in the gui at the first INVALID token
lexer_loop ==
    /\ mode = "driver" /\ pc = "scan"
    /\ LET s == token(lexdata, lexpos, lineno)
           invalid == s.tok.type = "INVALID"
       IN  /\ lexpos' = s.lexpos
           /\ lineno' = s.lineno
           /\ toks' = IF s.tok = NoToken THEN toks ELSE Append(toks, s.tok)
           /\ lexical_errors' =
                 IF invalid
                 THEN Append(lexical_errors, [line |-> s.tok.lineno, value |-> s.tok.value])
                 ELSE lexical_errors
           /\ IF s.tok = NoToken \/ (driver = "gui" /\ invalid)
              THEN pc' = "lexed" /\ ran' = Append(ran, "lexer")
              ELSE pc' = "scan" /\ ran' = ran
    /\ UNCHANGED <<mode, driver, lexdata, code_section, data_section, parserVars, semanticVars>>

\* ast = parser.parse(source_code, lexer=lexer): the lexer gives the parser the
\* tokens of the same text again
parser_stage ==
    /\ mode = "driver" /\ pc = "lexed" /\ stage_lexer_ok
    /\ pc' = "parsed"
    /\ ran' = Append(ran, "parser")
    /\ ast' = yacc_parse(toks, 1, 0, 0).ast
    /\ syntax_errors' = yacc_parse(toks, 1, 0, 0).errors
    /\ UNCHANGED <<mode, driver, lexerVars, lexical_errors, code_section, data_section,
                   ptoks, semanticVars>>

parser_skipped ==
    /\ mode = "driver" /\ pc = "lexed" /\ ~stage_lexer_ok
    /\ pc' = "parsed"
    /\ UNCHANGED <<mode, lexerVars, driverVars, parserVars, semanticVars>>

\* is_valid = semantic_analysis(ast) is called: the state of the analyzer is
\* reset and the tree is iterated, by the steps of the analyzer
semantic_stage ==
    /\ mode = "driver" /\ pc = "parsed" /\ stage_parser_ok
    /\ pc' = "run"
    /\ ran' = Append(ran, "semantic")
    /\ scopes' = AnalysisStart(ast).scopes
    /\ error_list' = AnalysisStart(ast).error_list
    /\ current_func_ret_type' = AnalysisStart(ast).current_func_ret_type
    /\ agenda' = AnalysisStart(ast).agenda
    /\ UNCHANGED <<mode, driver, lexerVars, lexical_errors, code_section, data_section,
                   parserVars, is_valid>>

semantic_skipped ==
    /\ mode = "driver" /\ pc = "parsed" /\ ~stage_parser_ok
    /\ pc' = "analysed"
    /\ UNCHANGED <<mode, lexerVars, driverVars, parserVars, semanticVars>>

\* codegen = CodeGenerator(ast)
codegen_stage ==
    /\ mode = "driver" /\ pc = "analysed" /\ stage_semantic_ok
    /\ pc' = "done"
    /\ ran' = Append(ran, "codegen")
    /\ code_section' = generate(ast, CodeGenerator).code_section
    /\ data_section' = generate(ast, CodeGenerator).data_section
    /\ UNCHANGED <<mode, driver, lexerVars, lexical_errors, parserVars, semanticVars>>

codegen_skipped ==
    /\ mode = "driver" /\ pc = "analysed" /\ ~stage_semantic_ok
    /\ pc' = "done"
    /\ UNCHANGED <<mode, lexerVars, driverVars, parserVars, semanticVars>>

Next ==
    \/ lexer_loop
    \/ parser_stage \/ parser_skipped
    \/ semantic_stage \/ semantic_skipped
    \/ NextSemantic
    \/ codegen_stage \/ codegen_skipped

Spec == InitDriver /\ [][Next]_vars

(***************************************************************************)
(* The code generator on its own: CodeGenerator(ast) over programs with    *)
(* an if chain, loops and declarations, as the Node constructors build     *)
(* them.                                                                   *)
(***************************************************************************)
MaxElifs == 2

\* y < k
Cond(k) == p_expr_binop(Id("y"), Name("<"), Lit(k))

\* the bodies of the arms: { }, { y = 1; }, { while(y<1){ y = y + 1; } },
\* { if(y<2){ print(y); } }
ArmBodies ==
    { <<>>,
      <<p_assignment(Id("y"), Lit("1"))>>,
      <<p_while_stmt(Cond("1"),
                     p_block(<<p_assignment(Id("y"),
                                            p_expr_binop(Id("y"), Name("+"), Lit("1")))>>))>>,
      <<p_if_stmt(Cond("2"), p_block(<<p_io_stmt_print(Id("y"))>>), NoneNode, NoneNode)>> }

\* elif(y<3){ body } n times, nested to the right as p_elif_part builds them
RECURSIVE ElifChain(_, _)
ElifChain(n, body) ==
    IF n = 0 THEN NoneNode
    ELSE p_elif_part(Cond("3"), p_block(body), ElifChain(n - 1, body))

\* if(y<0){ body } elif ... else { input(y); }
IfStmt(n, else, body) ==
    p_if_stmt(Cond("0"), p_block(body), ElifChain(n, body),
              IF else THEN p_else_part_opt(p_block(<<p_io_stmt_input(Name("y"))>>))
              ELSE NoneNode)

\* the declarations of the program
GenDeclChoices ==
    { <<p_var_decl_scalar(TypeNode("int"), Name("y"))>>,
      <<p_var_decl_scalar(TypeNode("int"), Name("y")),
        p_var_decl_scalar(TypeNode("float"), Name("z"))>>,
      <<p_var_decl_scalar(TypeNode("int"), Name("y")),
        p_var_decl_array(TypeNode("int"), Name("a"), Name("2"))>>,
      <<p_var_decl_scalar(TypeNode("int"), Name("y")),
        p_var_decl_array(TypeNode("bool"), Name("c"), Name("3")),
        p_var_decl_scalar(TypeNode("bool"), Name("b"))>> }

\* func n(){ for(y=0;y<1;y=y+1){ } if(y<0){ } }
SecondFunction ==
    p_func_decl(Name("n"), p_param_list_opt(<<>>),
        p_block(<<p_for_stmt(p_assignment(Id("y"), Lit("0")), Cond("1"),
                             p_assignment(Id("y"),
                                          p_expr_binop(Id("y"), Name("+"), Lit("1"))),
                             p_block(<<>>)),
                  IfStmt(0, FALSE, <<>>)>>))

\* decls  func m(){ if ... }  and, when asked for, the second function
GenProgram(decls, n, else, body, second) ==
    p_program(decls
              \o <<p_func_decl(Name("m"), p_param_list_opt(<<>>),
                               p_block(<<IfStmt(n, else, body)>>))>>
              \o (IF second THEN <<SecondFunction>> ELSE <<>>))

GenTrees ==
    { GenProgram(d, n, e, b, s) : d \in GenDeclChoices, n \in 0..MaxElifs, e \in BOOLEAN,
                                  b \in ArmBodies, s \in BOOLEAN }

\* the loop bodies: { }, { print(y); }, { break; }, { continue; },
\* { print(y); break; y = 2; }, { while(y<2){ continue; } }
LoopBodies ==
    { <<>>,
      <<p_io_stmt_print(Id("y"))>>,
      <<p_break_stmt>>,
      <<p_continue_stmt>>,
      <<p_io_stmt_print(Id("y")), p_break_stmt, p_assignment(Id("y"), Lit("2"))>>,
      <<p_while_stmt(Cond("2"), p_block(<<p_continue_stmt>>))>> }

\* for(y = 0; y < 1; y = y + 1) body
ForLoop(body) ==
    p_for_stmt(p_assignment(Id("y"), Lit("0")), Cond("1"),
               p_assignment(Id("y"), p_expr_binop(Id("y"), Name("+"), Lit("1"))),
               p_block(body))

\* while(y < 1) body
WhileLoop(body) == p_while_stmt(Cond("1"), p_block(body))

\* int y; func m(){ stmts }
OneFunction(stmts) ==
    p_program(<<p_var_decl_scalar(TypeNode("int"), Name("y")),
                p_func_decl(Name("m"), p_param_list_opt(<<>>), p_block(stmts))>>)

LoopPrograms ==
    {OneFunction(<<ForLoop(b)>>) : b \in LoopBodies}
        \cup {OneFunction(<<WhileLoop(b)>>) : b \in LoopBodies}

\* the function bodies with a return statement: { print(y); return; input(y); },
\* { return y; }, { if(y<0){ return; } print(y); }
ReturnBodies ==
    { <<p_io_stmt_print(Id("y")), p_return_stmt(NoneNode), p_io_stmt_input(Name("y"))>>,
      <<p_return_stmt(Id("y"))>>,
      <<p_if_stmt(Cond("0"), p_block(<<p_return_stmt(NoneNode)>>), NoneNode, NoneNode),
        p_io_stmt_print(Id("y"))>> }

JumpTrees == LoopPrograms \cup {OneFunction(b) : b \in ReturnBodies}

InitCodeGen ==
    /\ mode = "codegen"
    /\ pc = "new"
    /\ ast \in GenTrees \cup JumpTrees
    /\ syntax_errors = 0 /\ ptoks = <<>>
    /\ IdleLexer /\ IdleDriver /\ IdleSemantic

\* CodeGenerator(ast): the constructor generates the code of the tree
CodeGenerator_init ==
    /\ mode = "codegen" /\ pc = "new"
    /\ pc' = "done"
    /\ code_section' = generate(ast, CodeGenerator).code_section
    /\ data_section' = generate(ast, CodeGenerator).data_section
    /\ UNCHANGED <<mode, driver, ran, lexical_errors, lexerVars, parserVars, semanticVars>>

NextCodeGen == CodeGenerator_init

SpecCodeGen == InitCodeGen /\ [][NextCodeGen]_vars


(***************************************************************************)
(* Runs in sequence in one process: semantic_analysis(ast) called again    *)
(* on the module's globals as the run before left them, and a new          *)
(* CodeGenerator(ast) made after an earlier one.                           *)
(***************************************************************************)
MaxRuns == 2

\* the programs analysed: with diagnostics and nested scopes, and valid ones
\* whose code has temporaries and labels
RerunTrees ==
    { ParamProgram(<<"i", "n", "t">>),
      ReturnProgram(Lit("1")),
      CallProgram(<<p_literal(<<"t", "r", "u", "e">>), Lit("1")>>),
      CompatProgram(<<"i", "n", "t">>, <<"f", "l", "o", "a", "t">>, "v", "w"),
      CompatProgram(<<"f", "l", "o", "a", "t">>, <<"i", "n", "t">>, "v", "w"),
      GenProgram(<<p_var_decl_scalar(TypeNode("int"), Name("y"))>>, 1, TRUE,
                 <<p_assignment(Id("y"), Lit("1"))>>, FALSE),
      GenProgram(<<p_var_decl_scalar(TypeNode("int"), Name("y")),
                   p_var_decl_array(TypeNode("int"), Name("a"), Name("2"))>>, 0, FALSE,
                 <<p_while_stmt(Cond("1"), p_block(<<p_io_stmt_print(Id("y"))>>))>>, TRUE) }

InitRerun ==
    /\ mode = "rerun"
    /\ pc = "run"
    /\ ast \in RerunTrees
    /\ scopes = AnalysisStart(ast).scopes
    /\ error_list = AnalysisStart(ast).error_list
    /\ current_func_ret_type = AnalysisStart(ast).current_func_ret_type
    /\ agenda = AnalysisStart(ast).agenda
    /\ is_valid = FALSE
    /\ syntax_errors = 0 /\ ptoks = <<>>
    /\ IdleLexer /\ IdleDriver

\* semantic_analysis(ast) is called for the next program: the globals of the
\* earlier run are reset, then init(ast) iterates the tree
semantic_analysis_again ==
    /\ mode = "rerun" /\ pc \in {"done", "generated"}
    /\ Len(ran) < MaxRuns - 1
    /\ \E tree \in RerunTrees :
          /\ ast' = tree
          /\ scopes' = reset(Current).scopes
          /\ error_list' = reset(Current).error_list
          /\ current_func_ret_type' = reset(Current).current_func_ret_type
          /\ agenda' = <<Item("iterate", tree)>>
    /\ ran' = Append(ran, "semantic")
    /\ pc' = "run"
    /\ UNCHANGED <<mode, is_valid, lexerVars, driver, lexical_errors, code_section,
                   data_section, syntax_errors, ptoks>>

\* CodeGenerator(ast) for the program just analysed: a new object, whatever
\* generators were made before
CodeGenerator_again ==
    /\ mode = "rerun" /\ pc = "done" /\ is_valid
    /\ pc' = "generated"
    /\ code_section' = generate(ast, CodeGenerator).code_section
    /\ data_section' = generate(ast, CodeGenerator).data_section
    /\ UNCHANGED <<mode, driver, ran, lexical_errors, lexerVars, parserVars, semanticVars>>

NextRerun == NextSemantic \/ semantic_analysis_again \/ CodeGenerator_again

SpecRerun == InitRerun /\ [][NextRerun]_vars

(***************************************************************************)
(* Properties of the driver                                                *)
(***************************************************************************)
Stages == <<"lexer", "parser", "semantic", "codegen">>

Ran(stage) == \E i \in DOMAIN ran : ran[i] = stage

\* C1: the stages run in the order lexer, parser, semantic analyzer, code
\* generator, each at most once; the parser runs only after a scan of the
\* whole text that found no INVALID token, the semantic analyzer only on a
\* tree the parser returned, the code generator only after an analysis that
\* returned valid, with no diagnostics.
C1_StageOrder ==
    mode = "driver" =>
        /\ Len(ran) <= Len(Stages) /\ ran = SubSeq(Stages, 1, Len(ran))
        /\ Ran("parser") =>
              /\ lexpos = Len(lexdata)
              /\ lexical_errors = <<>>
              /\ \A i \in DOMAIN toks : toks[i].type # "INVALID"
        /\ Ran("semantic") => ast # NoneNode
        /\ Ran("codegen") => is_valid /\ error_list = <<>>
        /\ (pc = "done" /\ ~Ran("codegen")) => code_section = <<>> /\ data_section = <<>>

\* a compilation that ran all four stages and generated code
C1_Witness ==
    /\ mode = "driver" /\ pc = "done" /\ ran = Stages
    /\ code_section # <<>>

\* C2: when the parser reported a syntax error, neither the semantic
\* analysis nor the code generation runs, whether or not the parser returned
\* a tree.
C2_NoStageAfterSyntaxError ==
    (mode = "driver" /\ syntax_errors > 0) => ~Ran("semantic") /\ ~Ran("codegen")

\* C3: func main(){ int x; x = 2 + 3; print(x); } passes the lexer, the
\* parser and the semantic analysis with no diagnostic, and its code section
\* holds, in this order, the label FUNC_main, an ADD of 2 and 3 into a
\* temporary, a MOV of that temporary into x, a PRINT of x and a last RET.
C3_EndToEnd ==
    (mode = "driver" /\ pc = "done" /\ lexdata = EndToEndSource) =>
        /\ lexical_errors = <<>> /\ syntax_errors = 0 /\ error_list = <<>>
        /\ Ran("semantic") /\ is_valid
        /\ \E a, b, c, d \in DOMAIN code_section :
              /\ a < b /\ b < c /\ c < d /\ d < Len(code_section)
              /\ code_section[a] = LabelLine(<<"F", "U", "N", "C", "_", "m", "a", "i", "n">>)
              /\ code_section[b].op = "ADD"
              /\ code_section[b].arg1 = <<"2">> /\ code_section[b].arg2 = <<"3">>
              /\ code_section[c] = Instr("MOV", code_section[b].result, <<>>, <<"x">>)
              /\ code_section[d] = Instr("PRINT", <<"x">>, <<>>, <<>>)
              /\ code_section[Len(code_section)] = Instr("RET", <<>>, <<>>, <<>>)

(***************************************************************************)
(* Properties of the parser                                                *)
(***************************************************************************)
\* the value of a decimal integer literal
RECURSIVE IntValue(_)
IntValue(digits) ==
    IF digits = <<>> THEN 0
    ELSE 10 * IntValue(SubSeq(digits, 1, Len(digits) - 1))
         + (CHOOSE n \in 0..9 : <<"0", "1", "2", "3", "4", "5", "6", "7", "8", "9">>[n + 1]
                                  = digits[Len(digits)])

\* the arithmetic value of a tree of +, - and * over integer literals
RECURSIVE Value(_)
Value(node) ==
    IF node.type = "literal" THEN IntValue(node.leaf)
    ELSE IF node.leaf = <<"+">> THEN Value(node.children[1]) + Value(node.children[2])
    ELSE IF node.leaf = <<"-">> THEN Value(node.children[1]) - Value(node.children[2])
    ELSE Value(node.children[1]) * Value(node.children[2])

\* the tokens are those of y = a op1 b op2 c in the body of a function
TwoOperators ==
    /\ Len(ptoks) = 14
    /\ ptoks[7].type = "ASSIGN"
    /\ ptoks[9].type \in BinaryOps /\ ptoks[11].type \in BinaryOps
    /\ ptoks[8].type = "INT_LITERAL" /\ ptoks[10].type = "INT_LITERAL"
    /\ ptoks[12].type = "INT_LITERAL"

\* the expression of the first statement of the first function of the tree
Expression == ast.children[1].children[2].children[1].children[2]

\* the row of an operator in the table of the specification:
\* or < and < equality < relational < additive < multiplicative
TableRow(t) ==
    CASE t = "OR" -> 1
      [] t = "AND" -> 2
      [] t \in {"EQ", "NE"} -> 3
      [] t \in {"LT", "GT", "LE", "GE"} -> 4
      [] t \in {"PLUS", "MINUS"} -> 5
      [] OTHER -> 6

\* C8: for a op1 b op2 c with op2 of higher precedence than op1 the parser
\* reports no error and builds bin_op(op1, a, bin_op(op2, b, c)); the tree of
\* 1+2*3 has the arithmetic value 7.
C8_Precedence ==
    (pc = "done" /\ TwoOperators /\ TableRow(ptoks[11].type) > TableRow(ptoks[9].type)) =>
        /\ syntax_errors = 0
        /\ ast # NoneNode
        /\ Expression =
              p_expr_binop(p_literal(ptoks[8].value), ptoks[9].value,
                           p_expr_binop(p_literal(ptoks[10].value), ptoks[11].value,
                                        p_literal(ptoks[12].value)))
        /\ (ptoks[9].type = "PLUS" /\ ptoks[11].type = "TIMES") => Value(Expression) = 7

\* 1+2*3 has been parsed
C8_Witness ==
    /\ pc = "done" /\ TwoOperators
    /\ ptoks[9].type = "PLUS" /\ ptoks[11].type = "TIMES"
    /\ Value(Expression) = 7

(***************************************************************************)
(* Properties of the lexer                                                 *)
(***************************************************************************)
\* the lines of a text, said without the lexer's own searches: the offset
\* where the line holding offset p starts, and the offset of the newline
\* that ends it (the length of the text on the last line)
LineStart(d, p) ==
    CHOOSE s \in 0..p : /\ s = 0 \/ d[s] = "\n"
                        /\ \A k \in (s + 1)..p : d[k] # "\n"

LineEnd(d, p) ==
    CHOOSE e \in p..Len(d) : /\ e = Len(d) \/ d[e + 1] = "\n"
                             /\ \A k \in (p + 1)..e : d[k] # "\n"

Invalids == {i \in DOMAIN toks : toks[i].type = "INVALID"}

\* C4: every step of the lexer, the error recovery of t_error included,
\* consumes at least one character and never passes the end of the input, so
\* the position strictly increases until the input ends and the token
\* sequence is finite.
C4_Progress == [][lexpos' > lexpos /\ lexpos' <= Len(lexdata) /\ Len(toks') <= lexpos']_vars

\* an input scanned to its end, through an error recovery and other steps
C4_Witness ==
    /\ mode = "lexer" /\ lexpos = Len(lexdata) /\ Invalids # {}
    /\ \E i \in DOMAIN toks : toks[i].type # "INVALID"

\* C5 as stated: the text of an INVALID token is the slice from the failure
\* point to the end of the line, and holds nothing that precedes the failure
\* point.
C5_FromFailurePoint ==
    \A i \in Invalids :
        toks[i].value = Slice(lexdata, toks[i].lexpos, LineEnd(lexdata, toks[i].lexpos))

\* C5, as the code has it: the text of an INVALID token is the whole line
\* that holds the failure point, from the start of that line (the characters
\* that precede the failure point included) up to, not including, the next
\* newline or the end of the input.
C5_WholeLine ==
    \A i \in Invalids :
        toks[i].value = Slice(lexdata, LineStart(lexdata, toks[i].lexpos),
                              LineEnd(lexdata, toks[i].lexpos))

\* an INVALID token whose failure point is not the start of its line, on a
\* line that is not the first
C5_Witness ==
    \E i \in Invalids : /\ LineStart(lexdata, toks[i].lexpos) > 0
                        /\ toks[i].lexpos > LineStart(lexdata, toks[i].lexpos)

\* C6: once a line has given an INVALID token, every later token starts
\* after the newline that ends that line (so the line gives one INVALID token
\* at most and nothing after it), and the scan goes on from the end of that
\* line as it would from there in any text: the next token is the one normal
\* tokenization finds from the start of the next line.
C6_OneInvalidPerLine ==
    \A i \in Invalids :
        LET e == LineEnd(lexdata, toks[i].lexpos)
        IN  /\ \A j \in DOMAIN toks : j > i => toks[j].lexpos > e
            /\ i < Len(toks) => toks[i + 1] = token(lexdata, e, toks[i].lineno).tok
            /\ i = Len(toks) => lexpos >= e

\* a line with two illegal characters has given its INVALID token, and the
\* next line a token
C6_Witness ==
    \E i \in Invalids :
        /\ i < Len(toks)
        /\ \E k \in (toks[i].lexpos + 2)..LineEnd(lexdata, toks[i].lexpos) :
              lexdata[k] = "$"

\* C7: a run of decimal digits with a letter right after it is never given
\* as an integer literal (followed by an identifier).
C7_NoIntBeforeLetter ==
    \A i \in DOMAIN toks :
        (toks[i].type = "INT_LITERAL" /\ \A k \in DOMAIN toks[i].value : toks[i].value[k] \in Digit)
            => At(lexdata, toks[i].lexpos + Len(toks[i].value) + 1) \notin Letter


(***************************************************************************)
(* Properties of the semantic analyzer                                     *)
(***************************************************************************)
\* the names an expression or location reads or writes
RECURSIVE IdsOf(_)
IdsOf(node) ==
    (IF node.type \in {"id", "array_access"} THEN {node.leaf} ELSE {})
      \cup UNION {IdsOf(node.children[i]) : i \in DOMAIN node.children}

\* the names declared directly in the block of an if, elif, else, while or for
RECURSIVE BlockLocals(_)
BlockLocals(node) ==
    LET kids == {node.children[i] : i \in DOMAIN node.children}
        blocks == IF node.type \in {"if", "elif", "else", "while", "for"}
                  THEN {c \in kids : c.type = "block"}
                  ELSE {}
        locals(b) == {b.children[j].leaf :
                        j \in {k \in DOMAIN b.children :
                                 b.children[k].type \in {"var_decl", "var_decl_array"}}}
    IN  UNION {locals(b) : b \in blocks} \cup UNION {BlockLocals(c) : c \in kids}

\* the diagnostics a step appends
Appended == SubSeq(error_list', Len(error_list) + 1, Len(error_list'))

C10_Redeclaration ==
    [][Iterating({"var_decl", "var_decl_array", "func_decl"}) =>
          LET node == Head(agenda).node
              n == Len(scopes)
          IN  /\ InScope(scopes[n], node.leaf) =>
                    /\ Len(Appended) = 1
                    /\ Appended[1].kind \in {"variable_already_declared",
                                             "array_already_declared",
                                             "function_already_declared"}
                    /\ Appended[1].name = node.leaf
                    /\ ScopeGet(scopes'[n], node.leaf) = ScopeGet(scopes[n], node.leaf)
              /\ (~InScope(scopes[n], node.leaf) /\ lookup(scopes, node.leaf) # NoEntry) =>
                    /\ Appended = <<>>
                    /\ InScope(scopes'[n], node.leaf)
                    /\ LookupFrom(scopes', node.leaf, n) = ScopeGet(scopes'[n], node.leaf)
                    /\ LookupFrom(scopes', node.leaf, n) # lookup(scopes, node.leaf)
      ]_vars

\* the declared type of a visible name, as its declaration gave it
DeclaredType(name) == lookup(scopes, name).type

\* C11: compatible(target, source) holds exactly when target = source or
\* target is float and source is int: an assignment of a declared name to a
\* declared name gets the type-mismatch diagnostic exactly when the pair of
\* declared types is not such a pair, and nothing else; == between an int and
\* a float operand has type bool and gets no diagnostic.
C11_Compatibility ==
    [][Iterating({"assign"}) =>
          LET node == Head(agenda).node
              lhs == node.children[1]
              rhs == node.children[2]
              declared(n) == n.type = "id" /\ lookup(scopes, n.leaf) # NoEntry
          IN  /\ (declared(lhs) /\ declared(rhs)) =>
                    LET target == DeclaredType(lhs.leaf)
                        source == DeclaredType(rhs.leaf)
                    IN  IF target = source \/ (target = "float" /\ source = "int")
                        THEN Appended = <<>>
                        ELSE Appended = <<Diag("assign_mismatch", <<>>, source, target)>>
              /\ (/\ declared(lhs) /\ DeclaredType(lhs.leaf) = "bool"
                  /\ rhs.type = "bin_op" /\ rhs.leaf = <<"=", "=">>
                  /\ declared(rhs.children[1]) /\ declared(rhs.children[2])
                  /\ {DeclaredType(rhs.children[1].leaf), DeclaredType(rhs.children[2].leaf)}
                        = {"int", "float"})
                    => Appended = <<>>
      ]_vars

\* float v; int w; v = w; b = v == w: analysed, with no diagnostic
C11_Witness ==
    /\ mode = "semantic" /\ pc = "done"
    /\ ast = CompatProgram(<<"f", "l", "o", "a", "t">>, <<"i", "n", "t">>, "v", "w")
    /\ error_list = <<>> /\ is_valid

\* the declarations of the function name in the program
FuncDecls(name) ==
    {i \in DOMAIN ast.children :
        ast.children[i].type = "func_decl" /\ ast.children[i].leaf = name}

\* the parameter types the one declaration of name lists
DeclaredParams(name) ==
    LET decl == ast.children[CHOOSE i \in FuncDecls(name) : TRUE]
        params == decl.children[1].children
    IN  [i \in DOMAIN params |-> TypeTag(params[i].children[1].leaf)]

\* the type a literal argument is written with
WrittenType(arg) ==
    CASE arg.leaf = <<"1">> -> "int"
      [] arg.leaf = <<"2", ".", "5">> -> "float"
      [] OTHER -> "bool"

\* C12: a call of a declared function with another number of arguments than
\* declared parameters gets the one arity diagnostic; with the same number,
\* each argument position whose type is not compatible with the parameter's
\* gets its own diagnostic, and no other position does.
C12_CallChecking ==
    [][(/\ Iterating({"call"})
        /\ Cardinality(FuncDecls(Head(agenda).node.leaf)) = 1
        /\ \A i \in DOMAIN Head(agenda).node.children[1].children :
              Head(agenda).node.children[1].children[i] \in ArgChoices) =>
          LET node == Head(agenda).node
              passed == node.children[1].children
              defined == DeclaredParams(node.leaf)
              bad == {k \in DOMAIN passed :
                        ~(\/ defined[k] = WrittenType(passed[k])
                          \/ defined[k] = "float" /\ WrittenType(passed[k]) = "int")}
          IN  IF Len(defined) # Len(passed)
              THEN Appended = <<DiagN("argument_count_mismatch", node.leaf, "", "",
                                      Len(defined), Len(passed))>>
              ELSE /\ Len(Appended) = Cardinality(bad)
                   /\ \A k \in bad :
                        \E i \in DOMAIN Appended :
                            Appended[i] = DiagN("argument_mismatch", <<>>, defined[k],
                                                WrittenType(passed[k]), k, 0)
      ]_vars

\* f(true, 1) for f(int, bool): both positions are reported
C12_Witness ==
    /\ mode = "semantic" /\ pc = "done"
    /\ ast = CallProgram(<<p_literal(<<"t", "r", "u", "e">>), Lit("1")>>)
    /\ \A k \in 1..2 : \E i \in DOMAIN error_list :
          error_list[i].kind = "argument_mismatch" /\ error_list[i].n = k

\* C13: a parameter is visible as a variable whenever a statement of the
\* function's body is analysed: the function whose body assigns its
\* parameter to a declared variable of the same type is analysed with no
\* diagnostic.
C13_ParametersVisible ==
    (mode = "semantic" /\ ast \in ParamPrograms) =>
        /\ Iterating({"assign"}) => lookup(scopes, Name("p")) # NoEntry
        /\ pc = "done" => error_list = <<>> /\ is_valid

\* C14: a return statement gets the 'return outside of function' diagnostic
\* exactly when it is in no function body: return; in a function body gets no
\* diagnostic, return 1; in a function gets the return-type-mismatch
\* diagnostic alone, a return in no function gets the one diagnostic.
C14_ReturnOutsideFunction ==
    (mode = "semantic" /\ pc = "done") =>
        /\ ast = ReturnProgram(NoneNode) => error_list = <<>>
        /\ ast = ReturnProgram(Lit("1")) =>
              error_list = <<Diag("return_type_mismatch", <<>>, "void", "int")>>
        /\ ast = ReturnOutside =>
              error_list = <<Diag("return_outside_function", <<>>, "", "")>>

\* the type the lexical shape of a literal token stands for
ShapeType(token_type) ==
    CASE token_type = "CHAR_LITERAL" -> "char"
      [] token_type = "STRING_LITERAL" -> "string"
      [] token_type = "FLOAT_LITERAL" -> "float"
      [] token_type = "INT_LITERAL" -> "int"
      [] OTHER -> "bool"

\* the literal tokens of the scanned text
LiteralsScanned == {i \in DOMAIN toks : toks[i].type \in LiteralTokens}

\* C15: the type inferred for a literal node follows the lexical shape of
\* the token it was built from: char, string, float (with a point, or with an
\* exponent and no point), int (decimal or hex), bool for true and false.
C15_LiteralTypes ==
    (/\ mode = "driver" /\ Iterating({"assign"})
     /\ Head(agenda).node.children[2].type = "literal"
     /\ Cardinality(LiteralsScanned) = 1) =>
        LET tok == toks[CHOOSE i \in LiteralsScanned : TRUE]
            literal == Head(agenda).node.children[2]
        IN  /\ literal.leaf = tok.value
            /\ get_expr_type(literal, scopes).type = ShapeType(tok.type)

\* C16: a program in which an expression, wherever it stands, uses a name
\* no scope declares or adds an int and a bool, ends its analysis with at
\* least one diagnostic and invalid.
C16_EveryErrorReported ==
    (mode = "semantic" /\ pc = "done" /\ ast \in MisusePrograms) =>
        error_list # <<>> /\ ~is_valid

(***************************************************************************)
(* Properties of the code generator                                        *)
(***************************************************************************)
\* the lines of the code section that are the label
LabelLines(label) == {i \in DOMAIN code_section : code_section[i] = LabelLine(label)}

\* the jumps of the code section to the label
JumpsTo(label) ==
    {i \in DOMAIN code_section :
        \/ code_section[i].op = "JPF" /\ code_section[i].arg2 = label
        \/ code_section[i].op = "JMP" /\ code_section[i].arg1 = label}

\* the L labels of the code section, emitted or jumped to
LabelsUsed ==
    {code_section[i].label : i \in {j \in DOMAIN code_section :
                                      /\ code_section[j].label # <<>>
                                      /\ Head(code_section[j].label) = "L"}}
      \cup {code_section[i].arg2 : i \in {j \in DOMAIN code_section : code_section[j].op = "JPF"}}
      \cup {code_section[i].arg1 : i \in {j \in DOMAIN code_section : code_section[j].op = "JMP"}}

\* the program is  decls  func m(){ if(y<0){ body } }
OneIf(body) ==
    /\ mode = "codegen" /\ pc = "done"
    /\ \E d \in GenDeclChoices : ast = GenProgram(d, 0, FALSE, body, FALSE)

\* C17: an if with no elif and no else lowers to the condition code, JPF of
\* the condition to the false label, the body, JMP to the exit label, the
\* false label, the exit label; the two labels are new, each is emitted
\* once and is the target of one jump.
C17_IfShape ==
    \A body \in ArmBodies :
        OneIf(body) =>
            LET n == Len(code_section)
                L1 == <<"L", "1">>
                L2 == <<"L", "2">>
            IN  /\ n >= 7
                /\ code_section[2] = Instr("LT", <<"y">>, <<"0">>, <<"t", "1">>)
                /\ code_section[3] = Instr("JPF", <<"t", "1">>, L1, <<>>)
                /\ code_section[n - 3] = Instr("JMP", L2, <<>>, <<>>)
                /\ code_section[n - 2] = LabelLine(L1)
                /\ code_section[n - 1] = LabelLine(L2)
                /\ LabelLines(L1) = {n - 2} /\ LabelLines(L2) = {n - 1}
                /\ JumpsTo(L1) = {3} /\ JumpsTo(L2) = {n - 3}
                /\ \A i \in 4..(n - 4) : code_section[i].label \notin {L1, L2}
                /\ body \in {<<>>, <<p_assignment(Id("y"), Lit("1"))>>}
                      => LabelsUsed = {L1, L2}

\* if(y<0){ y = 1; } was lowered
C17_Witness ==
    /\ OneIf(<<p_assignment(Id("y"), Lit("1"))>>)
    /\ Len(code_section) = 8
    /\ code_section[4] = Instr("MOV", <<"1">>, <<>>, <<"y">>)

\* the L label lines of the code section
LLabelLines ==
    {i \in DOMAIN code_section :
        code_section[i].label # <<>> /\ Head(code_section[i].label) = "L"}

\* C18: an if with N elif arms lowers with 2+N labels; each elif arm has its
\* condition code, its JPF to its own next label, its body, its JMP to the
\* shared exit label and its next label; the else body comes after the last
\* arm, before the exit label.
C18_ElifChain ==
    \A n \in 0..MaxElifs, else \in BOOLEAN, d \in GenDeclChoices :
        (/\ mode = "codegen" /\ pc = "done"
         /\ ast = GenProgram(d, n, else, <<p_assignment(Id("y"), Lit("1"))>>, FALSE)) =>
            LET last == Len(code_section)
                exit == <<"L", "2">>
                conds == {i \in DOMAIN code_section : code_section[i].op = "LT"}
                bodies == {i \in DOMAIN code_section : code_section[i].op = "MOV"}
            IN  /\ Cardinality(LLabelLines) = 2 + n
                /\ Cardinality({code_section[i].label : i \in LLabelLines}) = 2 + n
                /\ Cardinality(conds) = 1 + n
                /\ Cardinality(bodies) = 1 + n
                /\ \A i \in conds :
                      /\ code_section[i + 1].op = "JPF"
                      /\ code_section[i + 1].arg1 = code_section[i].result
                      /\ code_section[i + 2].op = "MOV"
                      /\ code_section[i + 3] = Instr("JMP", exit, <<>>, <<>>)
                      /\ code_section[i + 4] = LabelLine(code_section[i + 1].arg2)
                /\ code_section[last - 1] = LabelLine(exit)
                /\ else => /\ code_section[last - 2] = Instr("READ", <<>>, <<>>, <<"y">>)
                           /\ (last - 3) \in LLabelLines

\* the number a label name ends with
LabelNumber(label) == IntValue(Tail(label))

\* C19: in the code of one run no label line, L<N> or FUNC_<name>, occurs
\* twice; the numbers of the L labels increase along the order in which
\* new_label handed them out, 1, 2, ... with none reused; every label a JPF
\* or a JMP names is emitted as a label line exactly once.
C19_LabelsUnique ==
    (mode = "codegen" /\ pc = "done") =>
        /\ \A i, j \in DOMAIN code_section :
              (code_section[i].label # <<>> /\ code_section[i].label = code_section[j].label)
                  => i = j
        /\ {LabelNumber(code_section[i].label) : i \in LLabelLines}
              = 1..Cardinality(LLabelLines)
        /\ \A i \in DOMAIN code_section :
              /\ code_section[i].op = "JPF" => Cardinality(LabelLines(code_section[i].arg2)) = 1
              /\ code_section[i].op = "JMP" => Cardinality(LabelLines(code_section[i].arg1)) = 1

\* a run over two functions with an if chain, a for and a second if
C19_Witness ==
    /\ mode = "codegen" /\ pc = "done"
    /\ Cardinality(LLabelLines) >= 7
    /\ \E i, j \in DOMAIN code_section :
          /\ code_section[i].label = <<"F", "U", "N", "C", "_", "m">>
          /\ code_section[j].label = <<"F", "U", "N", "C", "_", "n">>

\* the var_decl and var_decl_array nodes of a tree, in the order of the text
RECURSIVE DeclNodes(_)
RECURSIVE DeclNodesOf(_, _)
DeclNodes(node) ==
    (IF node.type \in {"var_decl", "var_decl_array"} THEN <<node>> ELSE <<>>)
      \o DeclNodesOf(node.children, 1)

DeclNodesOf(children, k) ==
    IF k > Len(children) THEN <<>>
    ELSE DeclNodes(children[k]) \o DeclNodesOf(children, k + 1)

\* C20: the data section has one entry for every declared variable, scalar
\* or array, in number the var_decl plus var_decl_array nodes of the tree,
\* with the marker DW when the declared type is int and DB otherwise.
C20_DataSection ==
    (mode = "codegen" /\ pc = "done") =>
        LET decls == DeclNodes(ast)
        IN  /\ Len(data_section) = Len(decls)
            /\ \A i \in DOMAIN decls :
                  /\ i \in DOMAIN data_section
                  /\ data_section[i].name = decls[i].leaf
                  /\ data_section[i].size =
                        IF decls[i].children[1].leaf = <<"i", "n", "t">> THEN "DW" ELSE "DB"

\* the names of the function declarations of the program, in order
RECURSIVE FuncNames(_, _)
FuncNames(decls, k) ==
    IF k > Len(decls) THEN <<>>
    ELSE (IF decls[k].type = "func_decl" THEN <<decls[k].leaf>> ELSE <<>>)
           \o FuncNames(decls, k + 1)

\* the lines of the code section that are function labels, in order
RECURSIVE FuncLabelLines(_)
FuncLabelLines(k) ==
    IF k > Len(code_section) THEN <<>>
    ELSE (IF /\ Len(code_section[k].label) > 5
             /\ SubSeq(code_section[k].label, 1, 5) = <<"F", "U", "N", "C", "_">>
          THEN <<k>> ELSE <<>>)
           \o FuncLabelLines(k + 1)

RetLine == Instr("RET", <<>>, <<>>, <<>>)

\* C21: the code section holds, for every function declaration, in the
\* order of the program, the label FUNC_<name>, the body's instructions and
\* a RET: the code begins with the first function's label, and the line
\* before the next function label, like the last line of the code, is a RET.
C21_FunctionFrame ==
    (mode = "codegen" /\ pc = "done") =>
        LET names == FuncNames(ast.children, 1)
            lines == FuncLabelLines(1)
        IN  /\ Len(lines) = Len(names)
            /\ \A i \in DOMAIN names :
                  /\ code_section[lines[i]].label = <<"F", "U", "N", "C", "_">> \o names[i]
                  /\ LET end == IF i < Len(lines) THEN lines[i + 1] - 1
                                ELSE Len(code_section)
                     IN  /\ end > lines[i]
                         /\ code_section[end] = RetLine
            /\ names # <<>> => lines[1] = 1
            \* where the body of m is the if, its condition is between the label
            \* and the RET
            /\ ast \in GenTrees => code_section[2] = Instr("LT", <<"y">>, <<"0">>, <<"t", "1">>)

\* two functions were lowered, each with its RET
C21_Witness ==
    /\ mode = "codegen" /\ pc = "done"
    /\ Len(FuncLabelLines(1)) = 2
    /\ code_section[FuncLabelLines(1)[2] - 1] = RetLine
    /\ code_section[Len(code_section)] = RetLine

\* the instructions whose result is a temporary new_temp gave
Computing ==
    {i \in DOMAIN code_section :
        code_section[i].op \in {"ADD", "SUB", "MUL", "DIV", "MOD", "LT", "GT", "LE", "GE",
                                "EQ", "NE", "AND", "OR", "UNKNOWN", "NEG", "NOT", "ALOAD",
                                "CALL"}}

\* the names the source text declares or uses
SourceNames == {toks[i].value : i \in {j \in DOMAIN toks : toks[j].type = "ID"}}

\* C22: in the code of a program the analysis accepted, no temporary and no
\* label of the generator has the name of a variable, array, parameter or
\* function of the program, and no two computed values share a temporary.
C22_NoCollision ==
    (mode = "driver" /\ pc = "done" /\ Ran("codegen")) =>
        /\ \A i \in Computing : code_section[i].result \notin SourceNames
        /\ \A i \in DOMAIN code_section :
              (code_section[i].label # <<>> /\ Head(code_section[i].label) = "L")
                  => code_section[i].label \notin SourceNames
        /\ \A i, j \in Computing :
              code_section[i].result = code_section[j].result => i = j

\* the scopes the pending calls of the run still have to pop
PendingPops == {i \in DOMAIN agenda : agenda[i].k \in {"exit_scope", "end_func"}}

\* the declarations at the top level of the program
TopLevel ==
    {i \in DOMAIN ast.children :
        ast.children[i].type \in {"var_decl", "var_decl_array", "func_decl"}}

\* the category define() is given for a declaration node
CategoryOf(decl) ==
    CASE decl.type = "var_decl" -> "var"
      [] decl.type = "var_decl_array" -> "array"
      [] OTHER -> "func"

\* C23: during a run the scope stack holds the global scope and one scope
\* for every function body or block being analysed, each of which is popped
\* again; when the run completes the stack is the global scope alone, and
\* its entries are the names declared at top level, each with the category
\* and type of its first top-level declaration.
C23_ScopeStack ==
    (mode = "semantic" /\ ast # NoneNode) =>
        /\ Len(scopes) >= 1
        /\ Len(scopes) = 1 + Cardinality(PendingPops)
        /\ pc = "done" =>
              /\ Len(scopes) = 1
              /\ {scopes[1][i].name : i \in DOMAIN scopes[1]}
                    = {ast.children[i].leaf : i \in TopLevel}
              /\ \A e \in DOMAIN scopes[1] :
                    LET first == CHOOSE i \in TopLevel :
                                    /\ ast.children[i].leaf = scopes[1][e].name
                                    /\ \A j \in TopLevel :
                                          ast.children[j].leaf = scopes[1][e].name => i <= j
                        decl == ast.children[first]
                    IN  /\ scopes[1][e].category = CategoryOf(decl)
                        /\ scopes[1][e].type =
                              IF decl.type = "func_decl" THEN "void"
                              ELSE TypeTag(decl.children[1].leaf)

\* int y; func f(int p){ y = p; } analysed: the snapshot holds y and f, not p
C23_Witness ==
    /\ mode = "semantic" /\ pc = "done"
    /\ ast = ParamProgram(<<"i", "n", "t">>)
    /\ Len(scopes) = 1
    /\ {scopes[1][i].name : i \in DOMAIN scopes[1]} = {<<"y">>, <<"f">>}

(***************************************************************************)
(* Properties of runs in sequence                                          *)
(***************************************************************************)
\* the numbers of the temporaries the code section computes into
TempNumbers == {IntValue(Tail(code_section[i].result)) : i \in Computing}

C25_SinglePass ==
    (mode = "semantic" /\ pc = "done" /\ ast \in MisusePrograms) =>
        \A i, j \in 1..Len(error_list) : error_list[i] = error_list[j] => i = j

\* the lines of the code section for a statement print(y), and for y = 2
PrintLines == {i \in DOMAIN code_section : code_section[i] = Instr("PRINT", <<"y">>, <<>>, <<>>)}

AssignTwoLines ==
    {i \in DOMAIN code_section : code_section[i] = Instr("MOV", <<"2">>, <<>>, <<"y">>)}

\* C26: for(y = 0; y < 1; y = y + 1) body lowers with the two labels L1 and
\* L2 to: the init code; L1:; the condition code; JPF to L2; the body's
\* code; the update code; JMP L1; L2: -- the init code once and before L1:,
\* the update code after the body and before the back jump.
C26_ForShape ==
    \A b \in LoopBodies :
        (mode = "codegen" /\ pc = "done" /\ ast = OneFunction(<<ForLoop(b)>>)) =>
            LET n == Len(code_section)
                body == 6..(n - 5)
                has(stmt) == \E k \in DOMAIN b : b[k] = stmt
            IN  /\ n >= 10
                /\ code_section[2] = Instr("MOV", <<"0">>, <<>>, <<"y">>)
                /\ \A i \in 3..n : code_section[i] # code_section[2]
                /\ code_section[3] = LabelLine(<<"L", "1">>)
                /\ code_section[4] = Instr("LT", <<"y">>, <<"1">>, <<"t", "1">>)
                /\ code_section[5] = Instr("JPF", <<"t", "1">>, <<"L", "2">>, <<>>)
                /\ has(p_io_stmt_print(Id("y"))) => PrintLines # {} /\ PrintLines \subseteq body
                /\ has(p_assignment(Id("y"), Lit("2")))
                      => AssignTwoLines # {} /\ AssignTwoLines \subseteq body
                /\ code_section[n - 4].op = "ADD"
                /\ code_section[n - 4].arg1 = <<"y">> /\ code_section[n - 4].arg2 = <<"1">>
                /\ code_section[n - 3]
                      = Instr("MOV", code_section[n - 4].result, <<>>, <<"y">>)
                /\ code_section[n - 2] = Instr("JMP", <<"L", "1">>, <<>>, <<>>)
                /\ code_section[n - 1] = LabelLine(<<"L", "2">>)
                /\ LabelLines(<<"L", "1">>) = {3} /\ LabelLines(<<"L", "2">>) = {n - 1}
                /\ (\A k \in DOMAIN b : b[k].type # "while") => Cardinality(LLabelLines) = 2

\* a for statement with the body { print(y); break; y = 2; } was lowered
C26_Witness ==
    /\ mode = "codegen" /\ pc = "done"
    /\ ast = OneFunction(<<ForLoop(<<p_io_stmt_print(Id("y")), p_break_stmt,
                                     p_assignment(Id("y"), Lit("2"))>>)>>)
    /\ PrintLines = {6} /\ AssignTwoLines = {7}

(***************************************************************************)
(* Line numbers of the tokens                                              *)
(***************************************************************************)
\* C27: the line number of every token is 1 plus the number of newline
\* characters of the text before the token's first character, whether they
\* stand between tokens, end a single-line comment, or lie in a multi-line
\* comment or in a string literal.
C27_LineNumbers ==
    mode = "lexer" =>
        \A i \in DOMAIN toks :
            toks[i].lineno = 1 + CountNL(Slice(lexdata, 0, toks[i].lexpos))

\* C28: in a loop whose labels are L1 (start) and L2 (end), a break in the
\* body emits a JMP to L2, and a continue a JMP besides the loop's back
\* jump; neither statement is lowered to nothing.
C28_BreakContinue ==
    \A b \in LoopBodies :
        (/\ mode = "codegen" /\ pc = "done"
         /\ ast \in {OneFunction(<<ForLoop(b)>>), OneFunction(<<WhileLoop(b)>>)}) =>
            LET has(stmt) == \E k \in DOMAIN b : b[k] = stmt
                jumps == {i \in DOMAIN code_section : code_section[i].op = "JMP"}
            IN  /\ has(p_break_stmt)
                      => \E i \in jumps : code_section[i].arg1 = <<"L", "2">>
                /\ has(p_continue_stmt) => Cardinality(jumps) >= 2

\* C29: a return statement emits a RET at its place: in
\* func m(){ print(y); return; input(y); } a RET stands between the PRINT and
\* the READ, and the code of a body with one return statement has two RETs,
\* the statement's and the trailing one.
C29_ReturnEmitsRet ==
    \A b \in ReturnBodies :
        (mode = "codegen" /\ pc = "done" /\ ast = OneFunction(b)) =>
            LET rets == {i \in DOMAIN code_section : code_section[i] = RetLine}
                reads == {i \in DOMAIN code_section : code_section[i].op = "READ"}
            IN  /\ Cardinality(rets) = 2
                /\ \A r \in reads : \E i \in rets : i < r

\* C30: the condition of an elif arm is checked like the condition of an
\* if: for if(true){ } elif(e){ } in a function body, with e the undeclared
\* name u or the sum 1 + true, the analysis ends with a diagnostic and is
\* not valid.
C30_ElifCondition ==
    \A e \in {Id("u"), p_expr_binop(Lit("1"), Name("+"), p_literal(<<"t", "r", "u", "e">>))} :
        (/\ mode = "semantic" /\ pc = "done"
         /\ ast = MisuseProgram(p_if_stmt(p_literal(<<"t", "r", "u", "e">>), p_block(<<>>),
                                          p_elif_part(e, p_block(<<>>), NoneNode), NoneNode)))
            => error_list # <<>> /\ ~is_valid

====
